---- MODULE Spec2Model ----
(***************************************************************************)
(* Gateway of the shopping-list microservices: the per-destination circuit *)
(* breaker, the request proxy and the file-based service registry it       *)
(* resolves destinations with.                                             *)
(*                                                                         *)
(* Time is the value of Date.now() in milliseconds; it is taken to be      *)
(* monotonic.  Strings that the code inspects (request paths) are          *)
(* sequences of one-character strings; strings it only copies (service     *)
(* names, urls, error codes, bodies) are TLA+ strings.                     *)
(***************************************************************************)
EXTENDS Integers, Sequences, FiniteSets, Bags, TLC

\* ------------------------------------------------------------------ bounds
\* Number of downstream calls the gateway awaits at the same time.
MaxRequests == 2
\* Failures recorded for one destination before the model stops failing it.
MaxFailures == 4
\* Last instant of the clock.
MaxNow == 60000
\* Number of processes inside a mutating registry call at the same time.
MaxWriters == 2

\* ------------------------------------------------------- program constants
\* part_000:270  (now - breaker.lastFailure) > 30000
CooldownMs == 30000
\* part_000:291  breaker.failures >= 3
FailureThreshold == 3
\* part_000:23  setTimeout(() => this.startHealthChecks(), 3000)
StartDelayMs == 3000
\* part_000:454  setTimeout(performHealthChecks, 5000)
EarlyDelayMs == 5000
\* part_000:450  setInterval(performHealthChecks, 30000)
IntervalMs == 30000

\* Amounts by which the clock advances between two steps.
TickSteps == {30000}

\* The services of the route table (part_000:99-119).
Services == {"user-service", "item-service", "list-service"}

\* Base url each service registers under (server.js:292-299 and the other
\* services' registerWithRegistry).
ServiceUrl(name) ==
    CASE name = "user-service" -> "http://localhost:3001"
      [] name = "item-service" -> "http://localhost:3002"
      [] name = "list-service" -> "http://localhost:3003"

VARIABLES
    now,              \* Date.now()
    circuitBreakers,  \* this.circuitBreakers : Map name -> breaker
    registry,         \* the persisted registry document: name -> record
    pending,          \* bag of the proxied calls awaiting axios(config)
    event,            \* what the last step did: the response it sent, if any
    procs,            \* the service processes: name -> what each is doing
    prober,           \* the gateway's health-check timers and probe cycle
    aggregate         \* the aggregator request the gateway is handling

vars == <<now, circuitBreakers, registry, pending, event, procs, prober, aggregate>>

\* ---------------------------------------------------------------- strings
StartsWith(s, p) ==
    /\ Len(s) >= Len(p)
    /\ SubSeq(s, 1, Len(p)) = p

\* String.prototype.slice(n): the suffix from index n (0-based).
Slice(s, n) == SubSeq(s, n + 1, Len(s))

\* Index (1-based) of the first occurrence of p in s, 0 when there is none.
IndexOf(s, p) ==
    LET hits == {i \in 1..(Len(s) - Len(p) + 1) : SubSeq(s, i, i + Len(p) - 1) = p}
    IN  IF hits = {} THEN 0 ELSE CHOOSE i \in hits : \A j \in hits : i <= j

\* String.prototype.replace(p, r) with a string pattern: first occurrence only.
Replace(s, p, r) ==
    LET i == IndexOf(s, p)
    IN  IF i = 0 THEN s
        ELSE SubSeq(s, 1, i - 1) \o r \o SubSeq(s, i + Len(p), Len(s))

\* The path prefixes the router tests and the local prefixes it writes.
ApiAuth == <<"/", "a", "p", "i", "/", "a", "u", "t", "h">>
ApiUsers == <<"/", "a", "p", "i", "/", "u", "s", "e", "r", "s">>
ApiItems == <<"/", "a", "p", "i", "/", "i", "t", "e", "m", "s">>
ApiLists == <<"/", "a", "p", "i", "/", "l", "i", "s", "t", "s">>
ApiItemsSearch == ApiItems \o <<"/", "s", "e", "a", "r", "c", "h">>
ApiItemsCategories == ApiItems \o <<"/", "c", "a", "t", "e", "g", "o", "r", "i", "e", "s">>
LocalAuth == <<"/", "a", "u", "t", "h">>
LocalUsers == <<"/", "u", "s", "e", "r", "s">>
LocalItems == <<"/", "i", "t", "e", "m", "s">>
LocalLists == <<"/", "l", "i", "s", "t", "s">>
LocalSearch == <<"/", "s", "e", "a", "r", "c", "h">>
LocalCategories == <<"/", "c", "a", "t", "e", "g", "o", "r", "i", "e", "s">>

\* --------------------------------------------------------- circuit breaker
\* The object recordFailure starts from when the map has no entry for the
\* name; its lastFailure is null, which JavaScript arithmetic reads as 0.
NewBreaker == [failures |-> 0, isOpen |-> FALSE, isHalfOpen |-> FALSE, lastFailure |-> 0]

\* this.circuitBreakers.get(serviceName) || { ...fresh breaker... }
BreakerOf(cb, serviceName) ==
    IF serviceName \in DOMAIN cb THEN cb[serviceName] ELSE NewBreaker

\* this.circuitBreakers.set(serviceName, breaker)
MapSet(m, k, v) == [x \in (DOMAIN m) \cup {k} |-> IF x = k THEN v ELSE m[x]]

\* Variants of isCircuitOpen, each with one slip.
\* The cooldown test written >= instead of >.
isCircuitOpen_inclusiveCooldown(cb, serviceName, t) ==
    IF serviceName \notin DOMAIN cb
    THEN [ret |-> FALSE, cb |-> cb]
    ELSE LET breaker == cb[serviceName]
         IN  IF breaker.isOpen /\ (t - breaker.lastFailure) >= CooldownMs
             THEN [ret |-> FALSE,
                   cb  |-> [cb EXCEPT ![serviceName].isOpen = FALSE,
                                      ![serviceName].isHalfOpen = TRUE]]
             ELSE [ret |-> breaker.isOpen, cb |-> cb]

\* The half-open flag not set after the cooldown.
isCircuitOpen_noHalfOpenFlag(cb, serviceName, t) ==
    IF serviceName \notin DOMAIN cb
    THEN [ret |-> FALSE, cb |-> cb]
    ELSE LET breaker == cb[serviceName]
         IN  IF breaker.isOpen /\ (t - breaker.lastFailure) > CooldownMs
             THEN [ret |-> FALSE,
                   cb  |-> [cb EXCEPT ![serviceName].isOpen = FALSE]]
             ELSE [ret |-> breaker.isOpen, cb |-> cb]

\* The cooldown branch taken without testing breaker.isOpen.
isCircuitOpen_ignoresIsOpen(cb, serviceName, t) ==
    IF serviceName \notin DOMAIN cb
    THEN [ret |-> FALSE, cb |-> cb]
    ELSE LET breaker == cb[serviceName]
         IN  IF (t - breaker.lastFailure) > CooldownMs
             THEN [ret |-> FALSE,
                   cb  |-> [cb EXCEPT ![serviceName].isOpen = FALSE,
                                      ![serviceName].isHalfOpen = TRUE]]
             ELSE [ret |-> breaker.isOpen, cb |-> cb]

\* The failure count cleared when the breaker goes half-open.
isCircuitOpen_clearsFailures(cb, serviceName, t) ==
    IF serviceName \notin DOMAIN cb
    THEN [ret |-> FALSE, cb |-> cb]
    ELSE LET breaker == cb[serviceName]
         IN  IF breaker.isOpen /\ (t - breaker.lastFailure) > CooldownMs
             THEN [ret |-> FALSE,
                   cb  |-> [cb EXCEPT ![serviceName].isOpen = FALSE,
                                      ![serviceName].isHalfOpen = TRUE,
                                      ![serviceName].failures = 0]]
             ELSE [ret |-> breaker.isOpen, cb |-> cb]

\* The cooldown not tested: an open breaker goes half-open at once.
isCircuitOpen_ignoresCooldown(cb, serviceName, t) ==
    IF serviceName \notin DOMAIN cb
    THEN [ret |-> FALSE, cb |-> cb]
    ELSE LET breaker == cb[serviceName]
         IN  IF breaker.isOpen
             THEN [ret |-> FALSE,
                   cb  |-> [cb EXCEPT ![serviceName].isOpen = FALSE,
                                      ![serviceName].isHalfOpen = TRUE]]
             ELSE [ret |-> breaker.isOpen, cb |-> cb]

\* A single-trial guard: a half-open breaker blocks every later check.
isCircuitOpen_singleTrial(cb, serviceName, t) ==
    IF serviceName \notin DOMAIN cb
    THEN [ret |-> FALSE, cb |-> cb]
    ELSE LET breaker == cb[serviceName]
         IN  IF breaker.isOpen /\ (t - breaker.lastFailure) > CooldownMs
             THEN [ret |-> FALSE,
                   cb  |-> [cb EXCEPT ![serviceName].isOpen = FALSE,
                                      ![serviceName].isHalfOpen = TRUE]]
             ELSE [ret |-> breaker.isOpen \/ breaker.isHalfOpen, cb |-> cb]

\* isCircuitOpen: the value returned (ret) and the map it leaves (cb).
isCircuitOpen(cb, serviceName, t) ==
    IF serviceName \notin DOMAIN cb
    THEN [ret |-> FALSE, cb |-> cb]
    ELSE LET breaker == cb[serviceName]
         IN  IF breaker.isOpen /\ (t - breaker.lastFailure) > CooldownMs
             THEN [ret |-> FALSE,
                   cb  |-> [cb EXCEPT ![serviceName].isOpen = FALSE,
                                      ![serviceName].isHalfOpen = TRUE]]
             ELSE [ret |-> breaker.isOpen, cb |-> cb]

\* Variants of recordFailure, each with one slip.
\* isHalfOpen not cleared when the breaker opens.
recordFailure_keepsHalfOpen(cb, serviceName, t) ==
    LET breaker == BreakerOf(cb, serviceName)
        counted == [breaker EXCEPT !.failures = @ + 1, !.lastFailure = t]
        tripped == IF counted.failures >= FailureThreshold
                   THEN [counted EXCEPT !.isOpen = TRUE]
                   ELSE counted
    IN  MapSet(cb, serviceName, tripped)

\* The threshold tested one failure early.
recordFailure_opensEarly(cb, serviceName, t) ==
    LET breaker == BreakerOf(cb, serviceName)
        counted == [breaker EXCEPT !.failures = @ + 1, !.lastFailure = t]
        tripped == IF counted.failures >= FailureThreshold - 1
                   THEN [counted EXCEPT !.isOpen = TRUE, !.isHalfOpen = FALSE]
                   ELSE counted
    IN  MapSet(cb, serviceName, tripped)

\* A variant of recordFailure that keeps one shared count for all the
\* destinations.
recordFailure_sharedCount(cb, serviceName, t) ==
    LET breaker == BreakerOf(cb, serviceName)
        counted == [breaker EXCEPT !.failures = @ + 1, !.lastFailure = t]
        tripped == IF counted.failures >= FailureThreshold
                   THEN [counted EXCEPT !.isOpen = TRUE, !.isHalfOpen = FALSE]
                   ELSE counted
    IN  [d \in (DOMAIN cb) \cup {serviceName} |-> tripped]

\* recordFailure: the map it leaves.
recordFailure(cb, serviceName, t) ==
    LET breaker == BreakerOf(cb, serviceName)
        counted == [breaker EXCEPT !.failures = @ + 1, !.lastFailure = t]
        tripped == IF counted.failures >= FailureThreshold
                   THEN [counted EXCEPT !.isOpen = TRUE, !.isHalfOpen = FALSE]
                   ELSE counted
    IN  MapSet(cb, serviceName, tripped)

\* A variant of resetCircuitBreaker that clears the count and not the flags.
resetCircuitBreaker_onlyCount(cb, serviceName) ==
    IF serviceName \in DOMAIN cb
    THEN [cb EXCEPT ![serviceName].failures = 0]
    ELSE cb

\* resetCircuitBreaker: the map it leaves.
resetCircuitBreaker(cb, serviceName) ==
    IF serviceName \in DOMAIN cb
    THEN [cb EXCEPT ![serviceName].failures = 0,
                    ![serviceName].isOpen = FALSE,
                    ![serviceName].isHalfOpen = FALSE]
    ELSE cb

\* ---------------------------------------------------------------- registry
\* process.pid of the process that runs each service.
PidOf(name) ==
    CASE name = "user-service" -> 101
      [] name = "item-service" -> 102
      [] name = "list-service" -> 103

\* The record register() stores for a service at instant t.
NewRecord(url, pid, t) ==
    [url |-> url, registeredAt |-> t, lastHealthCheck |-> t,
     healthy |-> TRUE, pid |-> pid]

\* readRegistry: the document parsed from the file.
readRegistry(file) == file

\* A variant of writeRegistry that patches the file with the entries written
\* and keeps the entries the file has besides.
writeRegistry_patches(file, services) ==
    [n \in (DOMAIN file) \cup (DOMAIN services) |->
        IF n \in DOMAIN services THEN services[n] ELSE file[n]]

\* writeRegistry: the file holds the document written, whatever it held.
writeRegistry(file, services) == services

\* An object spread followed by more fields: {...base, ...over}.
Spread(base, over) ==
    [f \in (DOMAIN base) \cup (DOMAIN over) |->
        IF f \in DOMAIN over THEN over[f] ELSE base[f]]

\* A variant of register that merges the new fields into the record already
\* there.
register_merges(reg, serviceName, serviceInfo, pid, t) ==
    MapSet(reg, serviceName,
           Spread(IF serviceName \in DOMAIN reg
                  THEN Spread(reg[serviceName], serviceInfo)
                  ELSE serviceInfo,
                  [registeredAt |-> t, lastHealthCheck |-> t,
                   healthy |-> TRUE, pid |-> pid]))

\* A variant of register that writes a document holding the new record
\* alone.
register_dropsOthers(reg, serviceName, serviceInfo, pid, t) ==
    [n \in {serviceName} |->
        Spread(serviceInfo, NewRecord(serviceInfo.url, pid, t))]

\* register, called at instant t in the process pid: the document it leaves.
register(reg, serviceName, serviceInfo, pid, t) ==
    MapSet(reg, serviceName,
           Spread(serviceInfo,
                  [registeredAt |-> t, lastHealthCheck |-> t,
                   healthy |-> TRUE, pid |-> pid]))

\* A variant of updateHealth that writes a record for a name that has none.
updateHealth_creates(reg, serviceName, healthy, t) ==
    IF serviceName \in DOMAIN reg
    THEN [reg EXCEPT ![serviceName].healthy = healthy,
                     ![serviceName].lastHealthCheck = t]
    ELSE MapSet(reg, serviceName, [healthy |-> healthy, lastHealthCheck |-> t])

\* A variant of updateHealth that marks every record of the document.
updateHealth_marksAll(reg, serviceName, healthy, t) ==
    IF serviceName \in DOMAIN reg
    THEN [n \in DOMAIN reg |-> [reg[n] EXCEPT !.healthy = healthy,
                                              !.lastHealthCheck = t]]
    ELSE reg

\* updateHealth at instant t: the document it leaves.
updateHealth(reg, serviceName, healthy, t) ==
    IF serviceName \in DOMAIN reg
    THEN [reg EXCEPT ![serviceName].healthy = healthy,
                     ![serviceName].lastHealthCheck = t]
    ELSE reg

\* A variant of discover that returns unhealthy records too.
discover_ignoresHealth(reg, serviceName) ==
    IF serviceName \notin DOMAIN reg
    THEN [ok |-> FALSE, error |-> "Servico nao encontrado"]
    ELSE [ok |-> TRUE, service |-> reg[serviceName]]

\* discover: the record, or the error it throws.
discover(reg, serviceName) ==
    IF serviceName \notin DOMAIN reg
    THEN [ok |-> FALSE, error |-> "Servico nao encontrado"]
    ELSE IF ~reg[serviceName].healthy
         THEN [ok |-> FALSE, error |-> "Servico indisponivel"]
         ELSE [ok |-> TRUE, service |-> reg[serviceName]]

\* A variant of listServices that leaves the unhealthy records out.
listServices_onlyHealthy(reg, t) ==
    [name \in {n \in DOMAIN reg : reg[n].healthy} |->
        [url |-> reg[name].url,
         healthy |-> reg[name].healthy,
         registeredAt |-> reg[name].registeredAt,
         uptime |-> t - reg[name].registeredAt,
         pid |-> reg[name].pid]]

\* listServices: one view per record, healthy or not.
listServices(reg, t) ==
    [name \in DOMAIN reg |->
        [url |-> reg[name].url,
         healthy |-> reg[name].healthy,
         registeredAt |-> reg[name].registeredAt,
         uptime |-> t - reg[name].registeredAt,
         pid |-> reg[name].pid]]

\* A variant of unregister that writes the document back empty.
unregister_clearsAll(reg, serviceName) ==
    IF serviceName \in DOMAIN reg
    THEN [ret |-> TRUE, reg |-> [n \in {} |-> n]]
    ELSE [ret |-> FALSE, reg |-> reg]

\* unregister: the value returned (ret) and the document it leaves (reg).
unregister(reg, serviceName) ==
    IF serviceName \in DOMAIN reg
    THEN [ret |-> TRUE, reg |-> [n \in (DOMAIN reg) \ {serviceName} |-> reg[n]]]
    ELSE [ret |-> FALSE, reg |-> reg]

\* A variant of cleanup that removes one of the records of the process and
\* leaves its other ones.
cleanup_removesOne(reg, currentPid) ==
    LET own == {n \in DOMAIN reg : reg[n].pid = currentPid}
        gone == IF own = {} THEN {} ELSE {CHOOSE n \in own : TRUE}
    IN  [changed |-> own # {},
         reg |-> [n \in (DOMAIN reg) \ gone |-> reg[n]]]

\* A variant of cleanup that leaves the document as it is.
cleanup_keepsAll(reg, currentPid) == [changed |-> FALSE, reg |-> reg]

\* cleanup in the process currentPid: whether it wrote (changed) and the
\* document it leaves (reg).
cleanup(reg, currentPid) ==
    LET own == {n \in DOMAIN reg : reg[n].pid = currentPid}
    IN  [changed |-> own # {},
         reg |-> [n \in (DOMAIN reg) \ own |-> reg[n]]]

\* ------------------------------------------------------------------ router
\* app.use(prefix, ...): the mount matches the prefix up to a path boundary.
Mounted(prefix, originalUrl) ==
    /\ StartsWith(originalUrl, prefix)
    /\ \/ Len(originalUrl) = Len(prefix)
       \/ originalUrl[Len(prefix) + 1] \in {"/", "?"}

\* setupRoutes: the service the first matching mount proxies to.
RouteOf(originalUrl) ==
    CASE Mounted(ApiAuth, originalUrl) -> "user-service"
      [] Mounted(ApiUsers, originalUrl) -> "user-service"
      [] Mounted(ApiItems, originalUrl) -> "item-service"
      [] Mounted(ApiLists, originalUrl) -> "list-service"
      [] OTHER -> "none"

\* A variant of the path rewrite without the branch for /api/items/search.
TargetPath_noSearchBranch(serviceName, originalPath) ==
    LET raw ==
          CASE serviceName = "user-service" ->
                 IF StartsWith(originalPath, ApiAuth)
                 THEN Replace(originalPath, ApiAuth, LocalAuth)
                 ELSE Replace(originalPath, ApiUsers, LocalUsers)
            [] serviceName = "item-service" ->
                 IF StartsWith(originalPath, ApiItemsCategories)
                 THEN LocalCategories \o Slice(originalPath, Len(ApiItemsCategories))
                 ELSE Replace(originalPath, ApiItems, LocalItems)
            [] serviceName = "list-service" ->
                 Replace(originalPath, ApiLists, LocalLists)
            [] OTHER -> <<>>
    IN  IF raw = <<"/">> \/ raw = <<>> THEN <<>> ELSE raw

\* proxyRequest, the path rewrite: targetPath from serviceName and originalUrl.
TargetPath(serviceName, originalPath) ==
    LET raw ==
          CASE serviceName = "user-service" ->
                 IF StartsWith(originalPath, ApiAuth)
                 THEN Replace(originalPath, ApiAuth, LocalAuth)
                 ELSE Replace(originalPath, ApiUsers, LocalUsers)
            [] serviceName = "item-service" ->
                 IF StartsWith(originalPath, ApiItemsSearch)
                 THEN LocalSearch \o Slice(originalPath, Len(ApiItemsSearch))
                 ELSE IF StartsWith(originalPath, ApiItemsCategories)
                      THEN LocalCategories \o Slice(originalPath, Len(ApiItemsCategories))
                      ELSE Replace(originalPath, ApiItems, LocalItems)
            [] serviceName = "list-service" ->
                 Replace(originalPath, ApiLists, LocalLists)
            [] OTHER -> <<>>
    IN  IF raw = <<"/">> \/ raw = <<>> THEN <<>> ELSE raw

\* What a response carries; NoRes when the step sent none.
NoRes == [status |-> 0]
NoUrl == [base |-> "", path |-> <<>>]

\* A variant of proxyRequest that counts a failed lookup as a failure of the
\* destination.
proxyRequest_countsLookup(cb, reg, serviceName, originalUrl, t) ==
    LET gate == isCircuitOpen(cb, serviceName, t)
        found == discover(reg, serviceName)
    IN  IF gate.ret
        THEN [cb |-> gate.cb, open |-> gate.ret, looked |-> FALSE, sent |-> FALSE, url |-> NoUrl,
              res |-> [status |-> 503,
                       body |-> [success |-> FALSE,
                                 message |-> "temporariamente indisponivel",
                                 service |-> serviceName]]]
        ELSE IF ~found.ok
             THEN [cb |-> recordFailure(gate.cb, serviceName, t), open |-> gate.ret,
                   looked |-> TRUE, sent |-> FALSE, url |-> NoUrl,
                   res |-> [status |-> 503,
                            body |-> [success |-> FALSE,
                                      message |-> "nao encontrado",
                                      service |-> serviceName,
                                      availableServices |-> DOMAIN listServices(reg, t)]]]
             ELSE [cb |-> gate.cb, open |-> gate.ret, looked |-> TRUE, sent |-> TRUE,
                   url |-> [base |-> found.service.url,
                            path |-> TargetPath(serviceName, originalUrl)],
                   res |-> NoRes]

\* A variant of proxyRequest that resolves the destination before it
\* consults the breaker.
proxyRequest_discoverFirst(cb, reg, serviceName, originalUrl, t) ==
    LET gate == isCircuitOpen(cb, serviceName, t)
        found == discover(reg, serviceName)
    IN  IF ~found.ok
        THEN [cb |-> cb, open |-> FALSE, looked |-> TRUE, sent |-> FALSE, url |-> NoUrl,
              res |-> [status |-> 503,
                       body |-> [success |-> FALSE,
                                 message |-> "nao encontrado",
                                 service |-> serviceName,
                                 availableServices |-> DOMAIN listServices(reg, t)]]]
        ELSE IF gate.ret
             THEN [cb |-> gate.cb, open |-> TRUE, looked |-> TRUE, sent |-> FALSE,
                   url |-> NoUrl,
                   res |-> [status |-> 503,
                            body |-> [success |-> FALSE,
                                      message |-> "temporariamente indisponivel",
                                      service |-> serviceName]]]
             ELSE [cb |-> gate.cb, open |-> FALSE, looked |-> TRUE, sent |-> TRUE,
                   url |-> [base |-> found.service.url,
                            path |-> TargetPath(serviceName, originalUrl)],
                   res |-> NoRes]

\* A variant of proxyRequest whose discovery-failure answer names only the
\* healthy services.
proxyRequest_listsHealthy(cb, reg, serviceName, originalUrl, t) ==
    LET gate == isCircuitOpen(cb, serviceName, t)
        found == discover(reg, serviceName)
    IN  IF gate.ret
        THEN [cb |-> gate.cb, open |-> gate.ret, looked |-> FALSE, sent |-> FALSE, url |-> NoUrl,
              res |-> [status |-> 503,
                       body |-> [success |-> FALSE,
                                 message |-> "temporariamente indisponivel",
                                 service |-> serviceName]]]
        ELSE IF ~found.ok
             THEN [cb |-> gate.cb, open |-> gate.ret, looked |-> TRUE, sent |-> FALSE, url |-> NoUrl,
                   res |-> [status |-> 503,
                            body |-> [success |-> FALSE,
                                      message |-> "nao encontrado",
                                      service |-> serviceName,
                                      availableServices |->
                                          {n \in DOMAIN reg : reg[n].healthy}]]]
             ELSE [cb |-> gate.cb, open |-> gate.ret, looked |-> TRUE, sent |-> TRUE,
                   url |-> [base |-> found.service.url,
                            path |-> TargetPath(serviceName, originalUrl)],
                   res |-> NoRes]

\* proxyRequest from its entry to `await axios(config)`: the breaker map it
\* leaves (cb), what isCircuitOpen returned (open), whether the registry
\* was read (looked), whether the
\* downstream call was issued (sent) and to which url, and the response
\* sent when the request ends here (res).
proxyRequest(cb, reg, serviceName, originalUrl, t) ==
    LET gate == isCircuitOpen(cb, serviceName, t)
        found == discover(reg, serviceName)
    IN  IF gate.ret
        THEN [cb |-> gate.cb, open |-> gate.ret, looked |-> FALSE, sent |-> FALSE, url |-> NoUrl,
              res |-> [status |-> 503,
                       body |-> [success |-> FALSE,
                                 message |-> "temporariamente indisponivel",
                                 service |-> serviceName]]]
        ELSE IF ~found.ok
             THEN [cb |-> gate.cb, open |-> gate.ret, looked |-> TRUE, sent |-> FALSE, url |-> NoUrl,
                   res |-> [status |-> 503,
                            body |-> [success |-> FALSE,
                                      message |-> "nao encontrado",
                                      service |-> serviceName,
                                      availableServices |-> DOMAIN listServices(reg, t)]]]
             ELSE [cb |-> gate.cb, open |-> gate.ret, looked |-> TRUE, sent |-> TRUE,
                   url |-> [base |-> found.service.url,
                            path |-> TargetPath(serviceName, originalUrl)],
                   res |-> NoRes]

\* How `await axios(config)` can settle: a downstream response (axios
\* resolves when validateStatus accepts the status and rejects otherwise), or
\* an error without response, carrying a code.
DownStatuses == {200, 404, 500}
Bodies == {[data |-> "found"], [data |-> "refused"]}
ErrorCodes == {"ECONNREFUSED", "ETIMEDOUT", "ECONNABORTED", "ECONNRESET"}

\* The codes of the two transport failures the catch block is written for:
\* the connection is refused, or the call times out. A connect that the
\* operating system gives up on carries ETIMEDOUT; the call's own
\* `timeout: 10000` expiring makes axios reject with ECONNABORTED.
RefusedCodes == {"ECONNREFUSED"}
TimeoutCodes == {"ETIMEDOUT", "ECONNABORTED"}
Outcomes ==
    [kind : {"response"}, status : DownStatuses, data : Bodies]
        \cup [kind : {"error"}, code : ErrorCodes]

\* error.message of an error without response.
ErrorMessage(code) ==
    CASE code = "ECONNREFUSED" -> "connect ECONNREFUSED 127.0.0.1"
      [] code = "ETIMEDOUT" -> "connect ETIMEDOUT 127.0.0.1"
      [] code = "ECONNABORTED" -> "timeout of 10000ms exceeded"
      [] code = "ECONNRESET" -> "socket hang up"

\* Variants of validateStatus: one that accepts only statuses below 400, one
\* that accepts every status.
validateStatus_below400(status) == status < 400
validateStatus_acceptsAll(status) == status < 600

\* validateStatus of the proxied call.
validateStatus(status) == status < 500

Fulfilled(o) == o.kind = "response" /\ validateStatus(o.status)

\* proxyRequest after `await axios(config)`: the breaker map it leaves and
\* the response it sends.
proxySettle(cb, serviceName, o, t) ==
    IF Fulfilled(o)
    THEN [cb |-> resetCircuitBreaker(cb, serviceName),
          res |-> [status |-> o.status, body |-> o.data]]
    ELSE [cb |-> recordFailure(cb, serviceName, t),
          res |-> IF o.kind = "error" /\ o.code \in {"ECONNREFUSED", "ETIMEDOUT"}
                  THEN [status |-> 503,
                        body |-> [success |-> FALSE,
                                  message |-> "indisponivel",
                                  service |-> serviceName,
                                  error |-> o.code]]
                  ELSE IF o.kind = "response"
                       THEN [status |-> o.status, body |-> o.data]
                       ELSE [status |-> 500,
                             body |-> [success |-> FALSE,
                                       message |-> "Erro interno do gateway",
                                       service |-> "api-gateway",
                                       error |-> ErrorMessage(o.code)]]]

\* ----------------------------------------------------------- state machine
EmptyMap == [x \in {} |-> x]

\* The prober before startHealthChecks has run, and the gateway with no
\* aggregator request in hand.
ProberOff == [state |-> "off"]
NoAggregate == [kind |-> "none"]

\* The documents the registry file can hold when the gateway starts: any
\* subset of the services, each registered at instant 0 and since marked
\* healthy or unhealthy.
RegistryDocs ==
    UNION {{[name \in S |-> [NewRecord(ServiceUrl(name), PidOf(name), 0)
                                EXCEPT !.healthy = h[name]]] : h \in [S -> BOOLEAN]}
           : S \in SUBSET Services}

\* The urls of the inbound requests: one for each of two destinations.
InboundUrls ==
    {ApiAuth \o <<"/", "l", "o", "g", "i", "n">>,
     ApiItems \o <<"/", "4", "2">>}

\* The services those requests are routed to.
Routed == {RouteOf(u) : u \in InboundUrls}

Init ==
    /\ now = 0
    /\ circuitBreakers = EmptyMap
    /\ registry \in {doc \in RegistryDocs : DOMAIN doc \subseteq Routed}
    /\ pending = EmptyBag
    /\ procs = EmptyMap /\ prober = ProberOff /\ aggregate = NoAggregate
    /\ event = [kind |-> "init"]

\* An inbound request enters proxyRequest and runs to its first await or to
\* its response.
ProxyStart(originalUrl) ==
    LET serviceName == RouteOf(originalUrl)
        step == proxyRequest(circuitBreakers, registry, serviceName, originalUrl, now)
    IN  /\ step.sent => BagCardinality(pending) < MaxRequests
        /\ circuitBreakers' = step.cb
        /\ pending' = IF step.sent
                      THEN pending (+) SetToBag({[service |-> serviceName,
                                                  url |-> step.url]})
                      ELSE pending
        /\ event' = [kind |-> "request", service |-> serviceName,
                     pre |-> BreakerOf(circuitBreakers, serviceName),
                     open |-> step.open, looked |-> step.looked,
                     sent |-> step.sent, res |-> step.res]
        /\ UNCHANGED <<now, registry, procs, prober, aggregate>>

\* The awaited downstream call c settles with outcome o; the request it
\* belongs to resumes in proxyRequest and ends.
Settle(c, o) ==
    LET step == proxySettle(circuitBreakers, c.service, o, now)
    IN  /\ circuitBreakers' = step.cb
        /\ pending' = pending (-) SetToBag({c})
        /\ event' = [kind |-> "settle", service |-> c.service,
                     pre |-> BreakerOf(circuitBreakers, c.service),
                     outcome |-> o, res |-> step.res]
        /\ UNCHANGED <<now, registry, procs, prober, aggregate>>

\* axios resolves: the downstream answered with a status below 500.
AxiosResolves(c) ==
    /\ BagIn(c, pending)
    /\ \E o \in Outcomes : Fulfilled(o) /\ Settle(c, o)

\* axios rejects: transport error, or a status of 500 and above.
AxiosRejects(c) ==
    /\ BagIn(c, pending)
    /\ BreakerOf(circuitBreakers, c.service).failures < MaxFailures
    /\ \E o \in Outcomes : ~Fulfilled(o) /\ Settle(c, o)

\* A running service shuts down gracefully: its signal handler unregisters it.
Unregister(name) ==
    /\ name \in DOMAIN registry
    /\ registry' = unregister(registry, name).reg
    /\ event' = [kind |-> "unregister"]
    /\ UNCHANGED <<now, circuitBreakers, pending, procs, prober, aggregate>>

\* Time passes.
Tick ==
    /\ \E dt \in TickSteps : now + dt <= MaxNow /\ now' = now + dt
    /\ event' = [kind |-> "tick"]
    /\ UNCHANGED <<circuitBreakers, registry, pending, procs, prober, aggregate>>

Next ==
    \/ \E u \in InboundUrls : ProxyStart(u)
    \/ \E c \in BagToSet(pending) : AxiosResolves(c)
    \/ \E c \in BagToSet(pending) : AxiosRejects(c)
    \/ \E name \in Services : Unregister(name)
    \/ Tick

Spec == Init /\ [][Next]_vars

\* ------------------------------------------------------------- properties
\* The breaker of service d as the gateway holds it now.
Cur(d) == BreakerOf(circuitBreakers, d)

\* The state of the breaker state machine a breaker object stands for.
Status(b) ==
    IF b.isOpen THEN "Open" ELSE IF b.isHalfOpen THEN "HalfOpen" ELSE "Closed"

\* The last step was an inbound request reaching the breaker check.
IsRequest == event.kind = "request"
\* The last step was a downstream call settling, as a success or a failure.
IsSuccess == event.kind = "settle" /\ Fulfilled(event.outcome)
IsFailure == event.kind = "settle" /\ ~Fulfilled(event.outcome)

TypeOK ==
    /\ now \in 0..MaxNow
    /\ DOMAIN circuitBreakers \subseteq Services
    /\ \A d \in DOMAIN circuitBreakers :
          /\ circuitBreakers[d].failures \in 0..MaxFailures
          /\ circuitBreakers[d].isOpen \in BOOLEAN
          /\ circuitBreakers[d].isHalfOpen \in BOOLEAN
          /\ circuitBreakers[d].lastFailure \in 0..now
    /\ DOMAIN registry \subseteq Services
    /\ IsABag(pending) /\ BagCardinality(pending) <= MaxRequests
    /\ \A c \in BagToSet(pending) : c.service \in Services
    /\ event.kind \in {"init", "tick", "request", "settle", "unregister"}

\* Milliseconds between the last failure a breaker object recorded and now.
Elapsed(b) == now - b.lastFailure

\* C1: once 3 failures of d were recorded with no success in between, and
\* while at most 30 seconds have passed since the last of them, the breaker
\* of d is open, isCircuitOpen(d) returns true, and a request for d is
\* answered 503 with no downstream call and the breaker left as it was.
C1_OpenRejectsUntilCooldown ==
    /\ \A d \in Services :
          (Cur(d).failures >= FailureThreshold /\ Elapsed(Cur(d)) <= CooldownMs)
              => /\ Cur(d).isOpen
                 /\ isCircuitOpen(circuitBreakers, d, now).ret
    /\ (IsRequest /\ event.pre.failures >= FailureThreshold
                  /\ Elapsed(event.pre) <= CooldownMs)
          => /\ event.open
             /\ event.res.status = 503
             /\ ~event.sent
             /\ Cur(event.service) = event.pre

\* A request rejected exactly 30 seconds after the last failure, that failure
\* being a later one than the third.
C1_Witness ==
    /\ IsRequest /\ event.open /\ event.res.status = 503
    /\ event.pre.failures > FailureThreshold
    /\ event.pre.lastFailure > 0
    /\ Elapsed(event.pre) = CooldownMs

\* C2: a proxied call that succeeds (downstream status below 500) leaves the
\* breaker of its destination with failures = 0, isOpen = false and
\* isHalfOpen = false, whatever the breaker was before.
C2_SuccessResets ==
    IsSuccess =>
        /\ Cur(event.service).failures = 0
        /\ ~Cur(event.service).isOpen
        /\ ~Cur(event.service).isHalfOpen

\* A 404 relayed for a call that was in flight while the breaker was open.
C2_Witness ==
    /\ IsSuccess /\ event.outcome.status = 404
    /\ event.pre.isOpen
    /\ ~Cur(event.service).isOpen

\* C3: a check of an open breaker more than 30 seconds after its last
\* failure sets isOpen = false and isHalfOpen = true in place, changes
\* nothing else of it, and returns false: the request goes on to discovery.
C3_CooldownHalfOpens ==
    (IsRequest /\ event.pre.isOpen /\ Elapsed(event.pre) > CooldownMs)
        => /\ ~event.open
           /\ event.looked
           /\ Cur(event.service) =
                 [event.pre EXCEPT !.isOpen = FALSE, !.isHalfOpen = TRUE]

\* The first request after the cooldown is sent downstream, breaker half-open.
C3_Witness ==
    /\ IsRequest /\ event.pre.isOpen /\ Elapsed(event.pre) > CooldownMs
    /\ event.sent
    /\ Cur(event.service).isHalfOpen

\* The arrows of the breaker's state diagram.
DiagramArrows ==
    {<<"Closed", "Open">>, <<"Open", "HalfOpen">>,
     <<"HalfOpen", "Closed">>, <<"HalfOpen", "Open">>}

\* The arrow the last step drew for the breaker it touched.
Arrow == <<Status(event.pre), Status(Cur(event.service))>>
Touched == event.kind \in {"request", "settle"}

\* C4, as stated: a step changes the state of a breaker only along
\* Closed -> Open, Open -> HalfOpen, HalfOpen -> Closed, HalfOpen -> Open.
C4_OnlyDiagramArrows ==
    Touched => (Arrow[1] = Arrow[2] \/ Arrow \in DiagramArrows)

\* C4, amended: a step changes the state of a breaker only along the four
\* arrows of the diagram, or along Open -> Closed when a call that was
\* in flight settles as a success.
C4_ArrowsOrReset ==
    Touched =>
        \/ Arrow[1] = Arrow[2]
        \/ Arrow \in DiagramArrows
        \/ Arrow = <<"Open", "Closed">> /\ IsSuccess

\* An open breaker closed by the success of a call sent before it opened.
C4_Witness ==
    /\ IsSuccess
    /\ Arrow = <<"Open", "Closed">>
    /\ Elapsed(event.pre) <= CooldownMs

\* C5: one failure recorded while the breaker is half-open opens it again
\* (isOpen = true, isHalfOpen = false) with lastFailure = now, so that checks
\* return true until 30 seconds later and false after that.
C5_HalfOpenFailureReopens ==
    (IsFailure /\ event.pre.isHalfOpen)
        => /\ Cur(event.service).isOpen
           /\ ~Cur(event.service).isHalfOpen
           /\ Cur(event.service).lastFailure = now
           /\ Cur(event.service).failures = event.pre.failures + 1
           /\ isCircuitOpen(circuitBreakers, event.service, now).ret
           /\ isCircuitOpen(circuitBreakers, event.service, now + CooldownMs).ret
           /\ ~isCircuitOpen(circuitBreakers, event.service, now + CooldownMs + 1).ret

\* A trial fails and the breaker is open again.
C5_Witness ==
    /\ IsFailure /\ event.pre.isHalfOpen
    /\ Cur(event.service).isOpen
    /\ event.res.status = 503

\* C6: no breaker has isOpen and isHalfOpen both true.
C6_NeverBothFlags ==
    \A d \in DOMAIN circuitBreakers :
        ~(circuitBreakers[d].isOpen /\ circuitBreakers[d].isHalfOpen)

\* One breaker half-open while another is open.
C6_Witness ==
    \E d1, d2 \in DOMAIN circuitBreakers :
        circuitBreakers[d1].isHalfOpen /\ circuitBreakers[d2].isOpen

\* C7: a breaker with isOpen or isHalfOpen true has failures >= 3; failures
\* is never negative; and a step lowers failures only by a reset to 0 on a
\* success.
C7_FlagsImplyThreshold ==
    /\ \A d \in DOMAIN circuitBreakers :
          /\ circuitBreakers[d].failures >= 0
          /\ (circuitBreakers[d].isOpen \/ circuitBreakers[d].isHalfOpen)
                => circuitBreakers[d].failures >= FailureThreshold
    /\ (Touched /\ Cur(event.service).failures < event.pre.failures)
          => (IsSuccess /\ Cur(event.service).failures = 0)

\* A half-open breaker, its failures still counted, is reset by a success.
C7_Witness ==
    /\ IsSuccess /\ event.pre.isHalfOpen
    /\ event.pre.failures >= FailureThreshold
    /\ Cur(event.service).failures = 0

\* C8: the check returns false when the map holds no breaker for d and when
\* fewer than 3 failures were recorded since the last reset; it returns true
\* and leaves the breaker as it was when the breaker is open and at most
\* 30 seconds have passed since its last failure.
C8_CheckReturns ==
    /\ \A d \in Services \ DOMAIN circuitBreakers :
          isCircuitOpen(circuitBreakers, d, now) = [ret |-> FALSE, cb |-> circuitBreakers]
    /\ (IsRequest /\ event.pre.failures < FailureThreshold)
          => (~event.open /\ Cur(event.service) = event.pre)
    /\ (IsRequest /\ event.pre.isOpen /\ Elapsed(event.pre) <= CooldownMs)
          => (event.open /\ Cur(event.service) = event.pre)

\* A check that returns true in the instant of the failure that opened the
\* breaker.
C8_Witness ==
    /\ IsRequest /\ event.open
    /\ event.pre.failures = FailureThreshold
    /\ Elapsed(event.pre) = 0
    /\ Cur(event.service) = event.pre

\* C9: every check made after the cooldown, while no outcome has been
\* recorded (the breaker about to go half-open, or half-open), returns
\* false, and the request is sent downstream when discovery succeeds; so
\* several trials can be in flight at once.
C9_NoSingleTrialGuard ==
    (IsRequest /\ (\/ event.pre.isHalfOpen
                   \/ event.pre.isOpen /\ Elapsed(event.pre) > CooldownMs))
        => /\ ~event.open
           /\ discover(registry, event.service).ok => event.sent

\* Two calls to the same destination in flight, the second one sent while
\* the breaker was already half-open.
C9_Witness ==
    /\ IsRequest /\ event.pre.isHalfOpen /\ event.sent
    /\ Cur(event.service).isHalfOpen
    /\ \E c \in BagToSet(pending) :
          c.service = event.service /\ CopiesIn(c, pending) >= 2

\* C10: when the breaker check returns true the request is answered 503
\* with the destination name, the registry is not read and no downstream
\* call is issued.
C10_OpenAnswersFirst ==
    (IsRequest /\ event.open)
        => /\ event.res.status = 503
           /\ event.res.body.service = event.service
           /\ "availableServices" \notin DOMAIN event.res.body
           /\ ~event.looked
           /\ ~event.sent

\* A request rejected by the breaker for a destination that discover would
\* not have found.
C10_Witness ==
    /\ IsRequest /\ event.open
    /\ ~discover(registry, event.service).ok
    /\ event.res.status = 503

\* C11: when the breaker check lets the request through and the destination
\* has no record in the registry, or has one marked unhealthy, the request is
\* answered 503 with the destination name and the names of all services
\* registered at that moment, healthy or not, and no downstream call is
\* issued; the breaker is left as the check left it.
C11_DiscoverFailureAnswers503 ==
    (IsRequest /\ ~event.open
               /\ (event.service \in DOMAIN registry => ~registry[event.service].healthy))
        => /\ event.res.status = 503
           /\ event.res.body.service = event.service
           /\ event.res.body.availableServices = DOMAIN registry
           /\ event.looked
           /\ ~event.sent
           /\ Cur(event.service) \in
                 {event.pre, [event.pre EXCEPT !.isOpen = FALSE, !.isHalfOpen = TRUE]}

\* A request for a destination registered but unhealthy: the 503 names that
\* destination among the available services.
C11_Witness ==
    /\ IsRequest /\ ~event.open
    /\ event.service \in DOMAIN registry
    /\ ~registry[event.service].healthy
    /\ event.res.status = 503
    /\ event.service \in event.res.body.availableServices
    /\ Cardinality(event.res.body.availableServices) = 2

\* C12: a downstream answer with a status below 500, a 4xx included, is
\* relayed with its status and its body as they came, and is recorded as a
\* success of the destination's breaker: the breaker is reset and no failure
\* is counted.
C12_Below500Relayed ==
    (event.kind = "settle" /\ event.outcome.kind = "response"
                           /\ event.outcome.status < 500)
        => /\ event.res = [status |-> event.outcome.status,
                            body |-> event.outcome.data]
           /\ Cur(event.service).failures = 0
           /\ ~Cur(event.service).isOpen
           /\ ~Cur(event.service).isHalfOpen
           /\ Cur(event.service).lastFailure = event.pre.lastFailure

\* A 404 with its own body relayed while failures were counted: the count is
\* cleared.
C12_Witness ==
    /\ event.kind = "settle" /\ event.outcome.kind = "response"
    /\ event.outcome.status = 404 /\ event.outcome.data = [data |-> "refused"]
    /\ event.res.status = 404 /\ event.res.body = [data |-> "refused"]
    /\ event.pre.failures = FailureThreshold - 1
    /\ Cur(event.service).failures = 0

\* C13, as stated: a proxied call that fails in transport, by a refused
\* connection or by a timeout, records one failure on the destination's
\* breaker and is answered 503 with the destination name and the error code.
C13_TransportFailureAnswers503 ==
    (event.kind = "settle" /\ event.outcome.kind = "error"
                           /\ event.outcome.code \in RefusedCodes \cup TimeoutCodes)
        => /\ Cur(event.service).failures = event.pre.failures + 1
           /\ Cur(event.service).lastFailure = now
           /\ event.res.status = 503
           /\ event.res.body.service = event.service
           /\ event.res.body.error = event.outcome.code

\* C14: a downstream answer with a status of 500 or above is relayed with
\* its status and body and records one failure on the destination's breaker;
\* the third failure counted opens the breaker.
C14_ServerErrorRelayedAndCounted ==
    (event.kind = "settle" /\ event.outcome.kind = "response"
                           /\ event.outcome.status >= 500)
        => /\ event.res = [status |-> event.outcome.status,
                            body |-> event.outcome.data]
           /\ Cur(event.service).failures = event.pre.failures + 1
           /\ Cur(event.service).lastFailure = now
           /\ (event.pre.failures = FailureThreshold - 1) => Cur(event.service).isOpen
           /\ (event.pre.failures < FailureThreshold - 1) => ~Cur(event.service).isOpen

\* The third 500 in a row for a closed breaker is relayed and opens it.
C14_Witness ==
    /\ event.kind = "settle" /\ event.outcome.kind = "response"
    /\ event.outcome.status = 500
    /\ event.res.status = 500 /\ event.res.body = event.outcome.data
    /\ event.pre.failures = FailureThreshold - 1 /\ ~event.pre.isOpen
    /\ Cur(event.service).isOpen

\* C15, as stated: an error during proxying that is neither a refused
\* connection, nor a timeout, nor a downstream answer is answered 500 with a
\* generic message, and the body carries nothing of the error itself.
C15_OtherErrorGeneric500 ==
    (event.kind = "settle" /\ event.outcome.kind = "error"
                           /\ event.outcome.code \notin RefusedCodes \cup TimeoutCodes)
        => /\ event.res.status = 500
           /\ event.res.body.message = "Erro interno do gateway"
           /\ \A f \in DOMAIN event.res.body \ {"success"} :
                 event.res.body[f] # ErrorMessage(event.outcome.code)

\* ------------------------------------------------- the router on its own
\* The inbound urls the rewrite is applied to: each mount prefix and each
\* longer prefix the rewrite tests, followed by nothing, by a path, by a
\* query, by more letters (which leaves the mount), or by another prefix.
RoutePrefixes ==
    {ApiAuth, ApiUsers, ApiItems, ApiItemsSearch, ApiItemsCategories, ApiLists}
RouteSuffixes ==
    {<<>>,
     <<"/">>,
     <<"/", "4", "2">>,
     <<"?", "q", "=", "x">>,
     <<"/", "?", "q", "=", "x">>,
     <<"/", "4", "2", "?", "q", "=", "x">>,
     <<"x">>,
     <<"i", "n", "g">>,
     <<"/", "s", "e", "a", "r", "c", "h">>,
     <<"/", "c", "a", "t", "e", "g", "o", "r", "i", "e", "s">>,
     <<"/", "s", "e", "a", "r", "c", "h", "?", "q", "=", "x">>,
     <<"/", "c", "a", "t", "e", "g", "o", "r", "i", "e", "s", "/", "7">>,
     <<"/", "a", "p", "i", "/", "a", "u", "t", "h">>,
     <<"/", "a", "p", "i", "/", "i", "t", "e", "m", "s">>,
     <<"/", "l", "o", "g", "i", "n">>,
     <<"/", "a", "/", "b">>,
     <<"e", "s">>,
     <<"/", "s", "e", "a", "r", "c", "h", "/", "c", "a", "t", "e", "g", "o", "r", "i", "e", "s">>,
     <<"?", "n", "e", "x", "t", "=", "/", "a", "p", "i", "/", "l", "i", "s", "t", "s">>,
     <<"/", "i", "t", "e", "m", "s">>}
RoutePaths == {p \o x : p \in RoutePrefixes, x \in RouteSuffixes}

\* The gateway is up with no request in hand but the one being routed.
RouteInit ==
    /\ now = 0
    /\ circuitBreakers = EmptyMap
    /\ registry = EmptyMap
    /\ pending = EmptyBag
    /\ procs = EmptyMap /\ prober = ProberOff /\ aggregate = NoAggregate
    /\ \E u \in RoutePaths : event = [kind |-> "inbound", url |-> u]

\* The mounts pick the destination and proxyRequest rewrites the path.
RouteRequest ==
    /\ event.kind = "inbound"
    /\ event' = [kind |-> "routed", url |-> event.url,
                 service |-> RouteOf(event.url),
                 path |-> TargetPath(RouteOf(event.url), event.url)]
    /\ UNCHANGED <<now, circuitBreakers, registry, pending, procs, prober, aggregate>>

\* The next request arrives.
RouteArrive(u) ==
    /\ event.kind = "routed"
    /\ event' = [kind |-> "inbound", url |-> u]
    /\ UNCHANGED <<now, circuitBreakers, registry, pending, procs, prober, aggregate>>

RouteNext ==
    \/ RouteRequest
    \/ \E u \in RoutePaths : RouteArrive(u)

SpecRoute == RouteInit /\ [][RouteNext]_vars

\* The route table as written: gateway prefix, destination, prefix on the
\* destination; the first row whose prefix the url starts with applies.
RouteTable ==
    <<[prefix |-> ApiAuth, service |-> "user-service", local |-> LocalAuth],
      [prefix |-> ApiUsers, service |-> "user-service", local |-> LocalUsers],
      [prefix |-> ApiItemsSearch, service |-> "item-service", local |-> LocalSearch],
      [prefix |-> ApiItemsCategories, service |-> "item-service",
       local |-> LocalCategories],
      [prefix |-> ApiItems, service |-> "item-service", local |-> LocalItems],
      [prefix |-> ApiLists, service |-> "list-service", local |-> LocalLists]>>

RowOf(u) ==
    CHOOSE i \in 1..Len(RouteTable) :
        /\ StartsWith(u, RouteTable[i].prefix)
        /\ \A j \in 1..(i - 1) : ~StartsWith(u, RouteTable[j].prefix)

\* C16: for every inbound url the router sends to a destination, the
\* destination and the path sent to it are those of the first matching row
\* of the table: the row's prefix is replaced by the destination's prefix
\* and what follows it, query included, is kept. So /api/items/categories
\* goes to /categories, /api/items/search?q=x to /search?q=x and
\* /api/items/42 to /items/42.
C16_RouteTable ==
    (event.kind = "routed" /\ event.service # "none")
        => /\ event.service = RouteTable[RowOf(event.url)].service
           /\ event.path = RouteTable[RowOf(event.url)].local
                               \o Slice(event.url, Len(RouteTable[RowOf(event.url)].prefix))
           /\ (event.url = ApiItemsCategories) => (event.path = LocalCategories)
           /\ (event.url = ApiItemsSearch \o <<"?", "q", "=", "x">>)
                 => (event.path = LocalSearch \o <<"?", "q", "=", "x">>)
           /\ (event.url = ApiItems \o <<"/", "4", "2">>)
                 => (event.path = LocalItems \o <<"/", "4", "2">>)

\* /api/items/search?q=x routed to item-service as /search?q=x.
C16_Witness ==
    /\ event.kind = "routed"
    /\ event.url = ApiItemsSearch \o <<"?", "q", "=", "x">>
    /\ event.service = "item-service"
    /\ event.path = <<"/", "s", "e", "a", "r", "c", "h", "?", "q", "=", "x">>

\* ------------------------------------------------ the registry on its own
\* The services whose processes call the registry here.
Registrants == {"user-service", "item-service"}

\* What a service passes to register: its url, with or without further
\* fields, one of which has the name of a field register sets itself.
ServiceInfos(name) ==
    {[url |-> ServiceUrl(name)],
     [url |-> ServiceUrl(name), version |-> "1.0.0"],
     [url |-> ServiceUrl(name), healthy |-> FALSE]}

\* The pids of the processes that run a service; a service that is started
\* again can be given the pid a process that died had.
ServicePids == {PidOf(name) : name \in Registrants}
\* process.pid of the gateway, which registers nothing.
GatewayPid == 100

\* How a process that loaded the registry module ends: the end of the event
\* loop or a call of process.exit, or one of the two signals it listens to.
ExitWays == {"exit", "SIGINT", "SIGTERM"}

\* getStats: the counts of the records, of the healthy ones and of the
\* others.
getStats(reg) ==
    [total |-> Cardinality(DOMAIN reg),
     healthy |-> Cardinality({n \in DOMAIN reg : reg[n].healthy}),
     unhealthy |-> Cardinality({n \in DOMAIN reg : ~reg[n].healthy})]

\* The registry file as ensureRegistryFile creates it.
RegistryInit ==
    /\ now = 0
    /\ circuitBreakers = EmptyMap
    /\ registry = EmptyMap
    /\ pending = EmptyBag
    /\ procs = EmptyMap /\ prober = ProberOff /\ aggregate = NoAggregate
    /\ event = [kind |-> "init"]

\* Each call below is synchronous from its readRegistry to its
\* writeRegistry; `pre` is the document it read.
RegistryRegister(name, info, pid) ==
    /\ registry' = register(registry, name, info, pid, now)
    /\ event' = [kind |-> "register", name |-> name, info |-> info,
                 pid |-> pid, pre |-> registry]
    /\ UNCHANGED <<now, circuitBreakers, pending, procs, prober, aggregate>>

RegistryUnregister(name) ==
    /\ registry' = unregister(registry, name).reg
    /\ event' = [kind |-> "unregister", name |-> name,
                 ret |-> unregister(registry, name).ret, pre |-> registry]
    /\ UNCHANGED <<now, circuitBreakers, pending, procs, prober, aggregate>>

RegistryUpdateHealth(name, healthy) ==
    /\ registry' = updateHealth(registry, name, healthy, now)
    /\ event' = [kind |-> "updateHealth", name |-> name, healthy |-> healthy,
                 pre |-> registry]
    /\ UNCHANGED <<now, circuitBreakers, pending, procs, prober, aggregate>>

\* The process pid ends: the signal handler runs cleanup and calls
\* process.exit, whose 'exit' handler runs cleanup once more.
RegistryExit(pid, how) ==
    LET first == cleanup(registry, pid)
        last == IF how = "exit" THEN first ELSE cleanup(first.reg, pid)
    IN  /\ registry' = last.reg
        /\ event' = [kind |-> "cleanup", pid |-> pid, how |-> how,
                     changed |-> first.changed, pre |-> registry]
        /\ UNCHANGED <<now, circuitBreakers, pending, procs, prober, aggregate>>

RegistryDiscover(name) ==
    /\ event' = [kind |-> "discover", name |-> name,
                 result |-> discover(registry, name), pre |-> registry]
    /\ UNCHANGED <<now, circuitBreakers, registry, pending, procs, prober, aggregate>>

RegistryList ==
    /\ event' = [kind |-> "listServices",
                 result |-> listServices(registry, now), pre |-> registry]
    /\ UNCHANGED <<now, circuitBreakers, registry, pending, procs, prober, aggregate>>

RegistryStats ==
    /\ event' = [kind |-> "getStats", result |-> getStats(registry),
                 pre |-> registry]
    /\ UNCHANGED <<now, circuitBreakers, registry, pending, procs, prober, aggregate>>

RegistryNext ==
    \/ \E name \in Registrants : \E info \in ServiceInfos(name) :
          \E pid \in ServicePids : RegistryRegister(name, info, pid)
    \/ \E name \in Registrants : RegistryUnregister(name)
    \/ \E name \in Registrants : \E healthy \in BOOLEAN :
          RegistryUpdateHealth(name, healthy)
    \/ \E name \in Registrants : RegistryDiscover(name)
    \/ RegistryList
    \/ RegistryStats
    \/ \E pid \in ServicePids \cup {GatewayPid} : \E how \in ExitWays :
          RegistryExit(pid, how)
    \/ Tick

SpecRegistry == RegistryInit /\ [][RegistryNext]_vars

\* The fields register sets itself.
StampedFields == {"registeredAt", "lastHealthCheck", "healthy", "pid"}

\* The records other than name's are those of the document the call read.
OthersKept(name) ==
    /\ (DOMAIN registry) \ {name} = (DOMAIN event.pre) \ {name}
    /\ \A m \in (DOMAIN registry) \ {name} : registry[m] = event.pre[m]

\* C17: register(name, serviceInfo) leaves one record for name made of the
\* fields passed and nothing of the record it replaces, with healthy = true
\* and registeredAt = now, and leaves the other records alone; listServices
\* then has name with healthy = true, and uptime is never negative.
C17_RegisterOverwrites ==
    /\ (event.kind = "register")
          => /\ event.name \in DOMAIN registry
             /\ OthersKept(event.name)
             /\ DOMAIN registry[event.name] = (DOMAIN event.info) \cup StampedFields
             /\ \A f \in (DOMAIN event.info) \ StampedFields :
                   registry[event.name][f] = event.info[f]
             /\ registry[event.name].healthy
             /\ registry[event.name].registeredAt = now
             /\ registry[event.name].lastHealthCheck = now
             /\ registry[event.name].pid = event.pid
             /\ listServices(registry, now)[event.name].healthy
             /\ listServices(registry, now)[event.name].uptime = 0
    /\ \A name \in DOMAIN registry :
          listServices(registry, now)[name].uptime >= 0

\* A service registers again, later and without the version it had passed
\* before, over a record marked unhealthy.
C17_Witness ==
    /\ event.kind = "register"
    /\ event.name \in DOMAIN event.pre
    /\ "version" \in DOMAIN event.pre[event.name]
    /\ ~event.pre[event.name].healthy
    /\ "version" \notin DOMAIN registry[event.name]
    /\ registry[event.name].healthy
    /\ registry[event.name].registeredAt > event.pre[event.name].registeredAt
    /\ DOMAIN registry = Registrants

\* C18: discover(name) fails as not found when the registry has no record
\* for name, fails as unavailable when the record has healthy = false, and
\* returns the record otherwise; it leaves the registry as it was.
C18_DiscoverContract ==
    (event.kind = "discover")
        => /\ registry = event.pre
           /\ (event.name \notin DOMAIN registry)
                 => event.result = [ok |-> FALSE, error |-> "Servico nao encontrado"]
           /\ (event.name \in DOMAIN registry /\ ~registry[event.name].healthy)
                 => event.result = [ok |-> FALSE, error |-> "Servico indisponivel"]
           /\ (event.name \in DOMAIN registry /\ registry[event.name].healthy)
                 => event.result = [ok |-> TRUE, service |-> registry[event.name]]

\* discover fails as unavailable for a record marked unhealthy while another
\* service is registered and healthy.
C18_Witness ==
    /\ event.kind = "discover"
    /\ event.name \in DOMAIN registry
    /\ ~registry[event.name].healthy
    /\ ~event.result.ok
    /\ event.result.error = "Servico indisponivel"
    /\ \E m \in DOMAIN registry : registry[m].healthy

\* C19: listServices has one entry for every record of the registry, healthy
\* or not, with the record's url and health; a record with healthy = false
\* is listed, is not returned by discover, and no request is sent to it.
C19_ListsAllRoutesHealthy ==
    /\ DOMAIN listServices(registry, now) = DOMAIN registry
    /\ \A name \in DOMAIN registry :
          /\ listServices(registry, now)[name].url = registry[name].url
          /\ listServices(registry, now)[name].healthy = registry[name].healthy
          /\ ~registry[name].healthy => ~discover(registry, name).ok
    /\ (IsRequest /\ event.sent)
          => /\ event.service \in DOMAIN registry
             /\ registry[event.service].healthy
    /\ (IsRequest /\ event.service \in DOMAIN registry
                   /\ ~registry[event.service].healthy)
          => ~event.sent

\* A request for an unhealthy destination is not sent; the destination is
\* listed as unhealthy next to a healthy one.
C19_Witness ==
    /\ IsRequest /\ ~event.sent /\ ~event.open
    /\ event.service \in DOMAIN listServices(registry, now)
    /\ ~listServices(registry, now)[event.service].healthy
    /\ \E name \in DOMAIN registry : registry[name].healthy

\* C20: unregister(name) removes the record and returns true when name is
\* registered, and returns false leaving the registry as it was when it is
\* not; the other records are kept, and a second call in a row returns false
\* and leaves the registry the first one left.
C20_UnregisterContract ==
    (event.kind = "unregister")
        => /\ event.ret = (event.name \in DOMAIN event.pre)
           /\ event.name \notin DOMAIN registry
           /\ OthersKept(event.name)
           /\ ~event.ret => registry = event.pre
           /\ unregister(registry, event.name) = [ret |-> FALSE, reg |-> registry]

\* A registered service is removed, another one stays.
C20_Witness ==
    /\ event.kind = "unregister"
    /\ event.ret
    /\ event.name \in DOMAIN event.pre
    /\ event.name \notin DOMAIN registry
    /\ DOMAIN registry # {}

\* C21: updateHealth(name, healthy) leaves the registry as it was, and
\* creates no record, when name has no record; when it has one, it sets
\* healthy and lastHealthCheck = now of that record and leaves its other
\* fields (url, registeredAt, pid) and every other record as they were.
C21_UpdateHealthFrame ==
    (event.kind = "updateHealth")
        => /\ DOMAIN registry = DOMAIN event.pre
           /\ OthersKept(event.name)
           /\ (event.name \notin DOMAIN event.pre) => registry = event.pre
           /\ (event.name \in DOMAIN event.pre)
                 => registry[event.name] =
                       [event.pre[event.name] EXCEPT !.healthy = event.healthy,
                                                     !.lastHealthCheck = now]

\* A record registered earlier is marked unhealthy: its registeredAt stays.
C21_Witness ==
    /\ event.kind = "updateHealth" /\ ~event.healthy
    /\ event.name \in DOMAIN event.pre
    /\ event.pre[event.name].healthy
    /\ ~registry[event.name].healthy
    /\ registry[event.name].lastHealthCheck = now
    /\ registry[event.name].registeredAt < now

\* C22: cleanup in the process pid removes every record whose pid is pid and
\* no other record, and writes only when it removed one; it is what the
\* 'exit', SIGINT and SIGTERM handlers of the registry module run.
C22_CleanupByPid ==
    (event.kind = "cleanup")
        => /\ DOMAIN registry = {n \in DOMAIN event.pre : event.pre[n].pid # event.pid}
           /\ \A n \in DOMAIN registry : registry[n] = event.pre[n]
           /\ event.changed = (\E n \in DOMAIN event.pre : event.pre[n].pid = event.pid)

\* On SIGTERM a process removes the two records it owns and leaves none.
C22_Witness ==
    /\ event.kind = "cleanup" /\ event.how = "SIGTERM"
    /\ Cardinality(DOMAIN event.pre) = 2
    /\ \A n \in DOMAIN event.pre : event.pre[n].pid = event.pid
    /\ registry = EmptyMap

\* ------------------------------------- registry calls of several processes
\* The gateway, whose prober marks the health of every service.
Gateway == "api-gateway"
RaceProcesses == Registrants \cup {Gateway}

\* What a service registers with.
RaceInfo(name) == [url |-> ServiceUrl(name), version |-> "1.0.0"]

\* The mutating calls a process makes: a service registers itself, reports
\* itself healthy and unregisters itself; the gateway's prober marks any
\* service healthy or unhealthy.
RaceCalls(p) ==
    IF p = Gateway
    THEN {[op |-> "updateHealth", name |-> n, healthy |-> h] :
             n \in Registrants, h \in BOOLEAN}
    ELSE {[op |-> "register", name |-> p],
          [op |-> "updateHealth", name |-> p, healthy |-> TRUE],
          [op |-> "unregister", name |-> p]}

\* A variant in which updateHealth writes a record for a name the document
\* it read does not have.
RaceBuilt_healthCreates(p, call, services) ==
    CASE call.op = "register" ->
           [writes |-> TRUE,
            doc |-> register(services, call.name, RaceInfo(call.name), PidOf(p), now)]
      [] call.op = "updateHealth" ->
           [writes |-> TRUE,
            doc |-> updateHealth_creates(services, call.name, call.healthy, now)]
      [] call.op = "unregister" ->
           [writes |-> unregister(services, call.name).ret,
            doc |-> unregister(services, call.name).reg]

\* The document a call builds from the one it read, and whether it goes on
\* to writeRegistry.
RaceBuilt(p, call, services) ==
    CASE call.op = "register" ->
           [writes |-> TRUE,
            doc |-> register(services, call.name, RaceInfo(call.name), PidOf(p), now)]
      [] call.op = "updateHealth" ->
           [writes |-> call.name \in DOMAIN services,
            doc |-> updateHealth(services, call.name, call.healthy, now)]
      [] call.op = "unregister" ->
           [writes |-> unregister(services, call.name).ret,
            doc |-> unregister(services, call.name).reg]

Idle == [pc |-> "idle"]

RaceInit ==
    /\ now = 0
    /\ circuitBreakers = EmptyMap
    /\ registry = EmptyMap
    /\ pending = EmptyBag
    /\ procs = [p \in RaceProcesses |-> Idle]
    /\ prober = ProberOff /\ aggregate = NoAggregate
    /\ event = [kind |-> "init"]

\* Process p enters a mutating call and reads the file.
RaceRead(p, call) ==
    /\ procs[p] = Idle
    /\ Cardinality({q \in RaceProcesses : procs[q] # Idle}) < MaxWriters
    /\ procs' = [procs EXCEPT ![p] = [pc |-> "read", call |-> call,
                                      services |-> readRegistry(registry)]]
    /\ event' = [kind |-> "read", proc |-> p]
    /\ UNCHANGED <<now, circuitBreakers, registry, pending, prober, aggregate>>

\* Process p finishes its call: it writes the document it built, if the
\* call writes, and returns.
RaceWrite(p) ==
    /\ procs[p] # Idle
    /\ LET built == RaceBuilt(p, procs[p].call, procs[p].services)
       IN  /\ registry' = IF built.writes
                          THEN writeRegistry(registry, built.doc)
                          ELSE registry
           /\ event' = [kind |-> "write", proc |-> p, call |-> procs[p].call,
                        wrote |-> built.writes,
                        read |-> procs[p].services, pre |-> registry]
    /\ procs' = [procs EXCEPT ![p] = Idle]
    /\ UNCHANGED <<now, circuitBreakers, pending, prober, aggregate>>

RaceNext ==
    \/ \E p \in RaceProcesses : \E call \in RaceCalls(p) : RaceRead(p, call)
    \/ \E p \in RaceProcesses : RaceWrite(p)

SpecRace == RaceInit /\ [][RaceNext]_vars

\* C23: a register call leaves the document it read with its own record
\* added, whatever the file holds by then: a record another process wrote
\* after that read is lost, so of two concurrent registrations of different
\* names one record can remain alone; a call that read the file as it is
\* when it writes (the calls run one after the other) keeps every other
\* record.
C23_LostUpdate ==
    (event.kind = "write" /\ event.call.op = "register")
        => /\ DOMAIN registry = (DOMAIN event.read) \cup {event.call.name}
           /\ \A m \in (DOMAIN registry) \ {event.call.name} :
                 registry[m] = event.read[m]
           /\ (event.read = event.pre)
                 => /\ DOMAIN registry = (DOMAIN event.pre) \cup {event.call.name}
                    /\ OthersKept(event.call.name)

\* Two services register at once for the first time: the second write
\* drops the record the first one wrote.
C23_Witness ==
    /\ event.kind = "write" /\ event.call.op = "register"
    /\ event.read = EmptyMap
    /\ DOMAIN event.pre = Registrants \ {event.call.name}
    /\ DOMAIN registry = {event.call.name}

\* ------------------------- the gateway's requests next to the registry calls
\* The url of the proxied requests here, and the service an aggregator
\* branch calls.
IsolationUrl == ApiItems \o <<"/", "4", "2">>

\* A proxied request enters while no other one is in flight.
IsolationProxy ==
    /\ pending = EmptyBag
    /\ ProxyStart(IsolationUrl)

\* callService up to its `await axios(config)`: the registry is read, the
\* call is issued when discover returns.
CallService(serviceName) ==
    /\ event' = [kind |-> "callService", service |-> serviceName,
                 sent |-> discover(registry, serviceName).ok]
    /\ UNCHANGED <<now, circuitBreakers, registry, pending, procs, prober, aggregate>>

\* The registry calls made next to the gateway's requests: registrations
\* and health marks, by one service at a time and by the prober.
IsolationCalls(p) == {call \in RaceCalls(p) : call.op # "unregister"}

IsolationRead(p, call) ==
    /\ (p # Gateway) => (\A q \in Registrants : procs[q] = Idle)
    /\ RaceRead(p, call)

IsolationNext ==
    \/ \E p \in RaceProcesses : \E call \in IsolationCalls(p) : IsolationRead(p, call)
    \/ \E p \in RaceProcesses : RaceWrite(p)
    \/ IsolationProxy
    \/ \E c \in BagToSet(pending) : AxiosResolves(c)
    \/ \E c \in BagToSet(pending) : AxiosRejects(c)
    \/ \E name \in Registrants : CallService(name)

SpecIsolation == RaceInit /\ [][IsolationNext]_vars

\* The step takes the record of n from healthy to unhealthy.
HealthDrops(n) ==
    /\ n \in DOMAIN registry /\ n \in DOMAIN registry'
    /\ registry[n].healthy /\ ~registry'[n].healthy

\* The step is the write of the prober's updateHealth(n, false).
FailedProbeOf(n) ==
    /\ event'.kind = "write" /\ event'.proc = Gateway
    /\ event'.call = [op |-> "updateHealth", name |-> n, healthy |-> FALSE]

\* The step is the whole-document write of a call that read the file when
\* the record of n was unhealthy, the file having changed since.
StaleWriteOver(n) ==
    /\ event'.kind = "write" /\ event'.wrote
    /\ event'.read # registry
    /\ n \in DOMAIN event'.read /\ ~event'.read[n].healthy

\* The steps of the gateway's request handling and of its breaker.
GatewayRequestStep == event'.kind \in {"request", "settle", "callService"}

ProbeOutcomes == {"2xx", "non2xx", "timeout", "refused"}

\* Variants of the test of a probe: one that takes any answer for a
\* success, one that takes everything for a success.
ProbeSucceeded_anyAnswer(outcome) == outcome \in {"2xx", "non2xx"}
ProbeSucceeded_always(outcome) == outcome \in ProbeOutcomes

\* axios resolves for a status from 200 to 299 and rejects otherwise; the
\* catch of performHealthChecks takes every rejection alike.
ProbeSucceeded(outcome) == outcome = "2xx"

HealthPath == <<"/", "h", "e", "a", "l", "t", "h">>

\* No cycle has run yet.
NoCycle ==
    [running |-> FALSE, snapshot |-> EmptyMap, todo |-> {}, current |-> "",
     results |-> <<>>]

\* performHealthChecks up to its first await: the document is read once and
\* the first probe is issued; Object.entries gives the records in the order
\* of the file, which is any order here.
CycleBegins(cycle) ==
    LET snapshot == readRegistry(registry)
    IN  IF snapshot = EmptyMap
        THEN cycle = [NoCycle EXCEPT !.snapshot = snapshot]
        ELSE \E first \in DOMAIN snapshot :
                cycle = [running |-> TRUE, snapshot |-> snapshot,
                         todo |-> (DOMAIN snapshot) \ {first},
                         current |-> first, results |-> <<>>]

\* performHealthChecks from the settling of a probe to the next await:
\* updateHealth with the result, then the next probe or the end of the
\* loop.
CycleGoesOn(cycle, outcome, next) ==
    [cycle EXCEPT !.results = Append(@, [name |-> cycle.current, outcome |-> outcome]),
                  !.running = (cycle.todo # {}),
                  !.current = next,
                  !.todo = @ \ {next}]

\* The probe in flight settles with outcome.
ProbeSettles(outcome) ==
    /\ prober.cycle.running
    /\ registry' = updateHealth(registry, prober.cycle.current,
                                ProbeSucceeded(outcome), now)
    /\ \E next \in IF prober.cycle.todo = {} THEN {""} ELSE prober.cycle.todo :
          prober' = [prober EXCEPT !.cycle = CycleGoesOn(@, outcome, next)]
    /\ event' = [kind |-> "probe", name |-> prober.cycle.current,
                 url |-> [base |-> prober.cycle.snapshot[prober.cycle.current].url,
                          path |-> HealthPath],
                 outcome |-> outcome, pre |-> registry]
    /\ UNCHANGED <<now, circuitBreakers, pending, procs, aggregate>>

\* The gateway is constructed at instant 0 with the registry file as the
\* services left it.
ProberInit ==
    /\ now = 0
    /\ circuitBreakers = EmptyMap
    /\ registry \in RegistryDocs
    /\ pending = EmptyBag
    /\ procs = EmptyMap /\ aggregate = NoAggregate
    /\ prober = [started |-> FALSE, startAt |-> StartDelayMs,
                 earlyArmed |-> FALSE, earlyAt |-> 0, intervalAt |-> 0,
                 cycle |-> NoCycle]
    /\ event = [kind |-> "init"]

\* A variant of the one-shot timer counted from the construction of the
\* gateway instead of from the call of startHealthChecks.
EarlyDue_fromConstruction(t) == EarlyDelayMs

\* setTimeout(..., 5000) and setInterval(..., 30000) called at instant t.
EarlyDue(t) == t + EarlyDelayMs
IntervalDue(t) == t + IntervalMs

\* The constructor's timer fires: startHealthChecks sets its two timers.
StartHealthChecks ==
    /\ ~prober.started /\ now = prober.startAt
    /\ prober' = [prober EXCEPT !.started = TRUE,
                                !.earlyArmed = TRUE,
                                !.earlyAt = EarlyDue(now),
                                !.intervalAt = IntervalDue(now)]
    /\ event' = [kind |-> "startHealthChecks"]
    /\ UNCHANGED <<now, circuitBreakers, registry, pending, procs, aggregate>>

\* The one-shot timer fires.
EarlyFires ==
    /\ prober.earlyArmed /\ now = prober.earlyAt
    /\ \E cycle \in {c \in [running : BOOLEAN, snapshot : {registry},
                             todo : SUBSET DOMAIN registry,
                             current : (DOMAIN registry) \cup {""},
                             results : {<<>>}] : CycleBegins(c)} :
          prober' = [prober EXCEPT !.earlyArmed = FALSE, !.cycle = cycle]
    /\ event' = [kind |-> "cycleStart", timer |-> "early"]
    /\ UNCHANGED <<now, circuitBreakers, registry, pending, procs, aggregate>>

\* The interval timer fires and is due again one interval later.
IntervalFires ==
    /\ prober.started /\ now = prober.intervalAt
    /\ \E cycle \in {c \in [running : BOOLEAN, snapshot : {registry},
                             todo : SUBSET DOMAIN registry,
                             current : (DOMAIN registry) \cup {""},
                             results : {<<>>}] : CycleBegins(c)} :
          prober' = [prober EXCEPT !.intervalAt = IntervalDue(@), !.cycle = cycle]
    /\ event' = [kind |-> "cycleStart", timer |-> "interval"]
    /\ UNCHANGED <<now, circuitBreakers, registry, pending, procs, aggregate>>

\* The instants at which a timer of the prober is due.
ProberDeadlines ==
    (IF prober.started THEN {prober.intervalAt} ELSE {prober.startAt})
        \cup (IF prober.earlyArmed THEN {prober.earlyAt} ELSE {})

\* Time passes until the next timer is due; a cycle, of at most three
\* probes of at most 5 seconds, has ended by then.
ProberTick ==
    /\ ~prober.cycle.running
    /\ \A t \in ProberDeadlines : t > now
    /\ \E t \in ProberDeadlines :
          /\ \A u \in ProberDeadlines : t <= u
          /\ t <= MaxNow
          /\ now' = t
    /\ event' = [kind |-> "tick"]
    /\ UNCHANGED <<circuitBreakers, registry, pending, procs, prober, aggregate>>

ProberNext ==
    \/ StartHealthChecks
    \/ EarlyFires
    \/ IntervalFires
    \/ \E outcome \in ProbeOutcomes : ProbeSettles(outcome)
    \/ ProberTick

SpecProber == ProberInit /\ [][ProberNext]_vars

\* The names probed so far in the cycle at hand, or in the last one.
Probed == {prober.cycle.results[i].name : i \in DOMAIN prober.cycle.results}

\* C24: a probe cycle probes every record that was in the document when the
\* cycle began once, at the record's url followed by /health; the record is
\* marked healthy when the probe succeeded and unhealthy when it failed in
\* any way (timeout, connection error, status outside 2xx); whatever the
\* results, the cycle ends with every record of its snapshot probed.
C24_ProbeCycle ==
    /\ event.kind \in {"cycleStart", "probe", "tick"} =>
          /\ Probed \subseteq DOMAIN prober.cycle.snapshot
          /\ \A i, j \in DOMAIN prober.cycle.results :
                prober.cycle.results[i].name = prober.cycle.results[j].name => i = j
          /\ ~prober.cycle.running => Probed = DOMAIN prober.cycle.snapshot
          /\ prober.cycle.running =>
                /\ prober.cycle.current \in DOMAIN prober.cycle.snapshot
                /\ prober.cycle.current \notin Probed
                /\ Probed \cup {prober.cycle.current} \cup prober.cycle.todo
                      = DOMAIN prober.cycle.snapshot
    /\ event.kind = "cycleStart" => prober.cycle.snapshot = registry
    /\ event.kind = "probe" =>
          /\ event.url = [base |-> event.pre[event.name].url, path |-> HealthPath]
          /\ event.url.base = ServiceUrl(event.name)
          /\ registry[event.name].healthy = (event.outcome = "2xx")
          /\ DOMAIN registry = DOMAIN event.pre
          /\ \A n \in (DOMAIN registry) \ {event.name} : registry[n] = event.pre[n]

\* A cycle over three records has ended: the first probe timed out, the
\* second was refused, the third succeeded, and each record is marked as its
\* probe went.
C24_Witness ==
    /\ event.kind = "probe" /\ ~prober.cycle.running
    /\ Len(prober.cycle.results) = 3
    /\ prober.cycle.results[1].outcome = "timeout"
    /\ prober.cycle.results[2].outcome = "refused"
    /\ prober.cycle.results[3].outcome = "2xx"
    /\ \A i \in 1..3 :
          registry[prober.cycle.results[i].name].healthy = (i = 3)

\* C28 as stated: an early cycle 5 seconds after the gateway started, and a
\* cycle every 30 seconds.
C28_EarlyCycleAtFiveSeconds ==
    event.kind = "cycleStart" =>
        /\ event.timer = "early" => now = EarlyDelayMs
        /\ event.timer = "interval" => prober.intervalAt = now + IntervalMs

\* C28: the prober starts 3 seconds after the gateway was constructed; from
\* that instant one early cycle begins 5 seconds later (8 seconds after the
\* construction) and a cycle begins every 30 seconds (33 seconds after the
\* construction, 63, ...); no due cycle is passed over.
C28_CycleTimes ==
    /\ event.kind = "cycleStart" =>
          /\ event.timer = "early" => now = StartDelayMs + EarlyDelayMs
          /\ event.timer = "interval" =>
                /\ now > StartDelayMs
                /\ (now - StartDelayMs) % IntervalMs = 0
                /\ prober.intervalAt = now + IntervalMs
    /\ event.kind = "startHealthChecks" => now = StartDelayMs
    /\ \A t \in ProberDeadlines : now <= t
    /\ now > StartDelayMs + EarlyDelayMs => ~prober.earlyArmed

\* The first cycle of the interval begins, 33 seconds after the
\* construction, after the early cycle took place.
C28_Witness ==
    /\ event.kind = "cycleStart" /\ event.timer = "interval"
    /\ now = StartDelayMs + IntervalMs
    /\ ~prober.earlyArmed

\* ------------------------------------------------- the life of a service
\* A service process is down (never started, or shut down), up (listening
\* and registered) or crashed (gone without its handlers having run).
Down == [state |-> "down"]
Up == [state |-> "up"]
Crashed == [state |-> "crashed"]

LifeInit ==
    /\ now = 0
    /\ circuitBreakers = EmptyMap
    /\ registry = EmptyMap
    /\ pending = EmptyBag
    /\ procs = [name \in Registrants |-> Down]
    /\ prober = [cycle |-> NoCycle]
    /\ aggregate = NoAggregate
    /\ event = [kind |-> "init"]

\* start(): the callback of app.listen registers the service; a service
\* that crashed is started again as a new process.
ServiceStart(name) ==
    /\ procs[name] \in {Down, Crashed}
    /\ procs' = [procs EXCEPT ![name] = Up]
    /\ registry' = register(registry, name, RaceInfo(name), PidOf(name), now)
    /\ event' = [kind |-> "start", name |-> name, pre |-> registry]
    /\ UNCHANGED <<now, circuitBreakers, pending, prober, aggregate>>

\* The timer of startHealthReporting fires.
ServiceReport(name) ==
    /\ procs[name] = Up
    /\ registry' = updateHealth(registry, name, TRUE, now)
    /\ event' = [kind |-> "report", name |-> name, pre |-> registry]
    /\ UNCHANGED <<now, circuitBreakers, pending, procs, prober, aggregate>>

\* SIGTERM or SIGINT reaches a running service. The listeners run in the
\* order they were added: the one of the registry module comes first, calls
\* cleanup and process.exit, which runs the 'exit' listener (cleanup again)
\* and ends the process before the service's own listener is reached.
ServiceShutdown(name, signal) ==
    /\ procs[name] = Up
    /\ procs' = [procs EXCEPT ![name] = Down]
    /\ registry' = cleanup(cleanup(registry, PidOf(name)).reg, PidOf(name)).reg
    /\ event' = [kind |-> "shutdown", name |-> name, signal |-> signal,
                 pre |-> registry]
    /\ UNCHANGED <<now, circuitBreakers, pending, prober, aggregate>>

\* A running service is killed: no listener runs.
ServiceCrash(name) ==
    /\ procs[name] = Up
    /\ procs' = [procs EXCEPT ![name] = Crashed]
    /\ event' = [kind |-> "crash", name |-> name]
    /\ UNCHANGED <<now, circuitBreakers, registry, pending, prober, aggregate>>

\* The interval timer of the prober fires; the cycle before has ended.
LifeCycleStart ==
    /\ ~prober.cycle.running
    /\ \E cycle \in {c \in [running : BOOLEAN, snapshot : {registry},
                             todo : SUBSET DOMAIN registry,
                             current : (DOMAIN registry) \cup {""},
                             results : {<<>>}] : CycleBegins(c)} :
          prober' = [prober EXCEPT !.cycle = cycle]
    /\ event' = [kind |-> "cycleStart", timer |-> "interval"]
    /\ UNCHANGED <<now, circuitBreakers, registry, pending, procs, aggregate>>

\* How a probe of a process can settle: a running service answers its
\* /health with 200 unless the probe times out; nothing listens on the port
\* of a process that is gone.
LifeOutcomes(proc) ==
    IF proc = Up THEN {"2xx", "timeout"} ELSE {"refused", "timeout"}

LifeProbe ==
    /\ prober.cycle.running
    /\ \E outcome \in LifeOutcomes(procs[prober.cycle.current]) :
          ProbeSettles(outcome)

\* A proxied call settles: with a response only when the service runs.
LifeResolves(c) ==
    /\ procs[c.service] = Up
    /\ AxiosResolves(c)

LifeRejects(c) ==
    /\ BagIn(c, pending)
    /\ BreakerOf(circuitBreakers, c.service).failures < MaxFailures
    /\ \E o \in Outcomes :
          /\ ~Fulfilled(o)
          /\ procs[c.service] # Up => o.kind = "error"
          /\ Settle(c, o)

\* The steps of the gateway and of the services named.
LifeStep(names) ==
    \/ \E name \in names : ServiceStart(name)
    \/ \E name \in names : ServiceReport(name)
    \/ \E name \in names : \E signal \in {"SIGTERM", "SIGINT"} :
          ServiceShutdown(name, signal)
    \/ \E name \in names : ServiceCrash(name)
    \/ LifeCycleStart
    \/ LifeProbe
    \/ IsolationProxy
    \/ \E c \in BagToSet(pending) : LifeResolves(c)
    \/ \E c \in BagToSet(pending) : LifeRejects(c)

LifeNext == LifeStep(Registrants)

SpecLifecycle == LifeInit /\ [][LifeNext]_vars

\* The service the proxied requests are for.
Watched == RouteOf(IsolationUrl)

\* The life of the one service that gets the requests, with a gateway that
\* keeps running: its interval timer goes on firing, and every probe
\* settles, by its 5 seconds timeout at the latest.
SpecLifecycleFair ==
    /\ LifeInit
    /\ [][LifeStep({Watched})]_vars
    /\ WF_vars(LifeCycleStart)
    /\ WF_vars(LifeProbe)

\* C26: a service registers itself when it starts listening, so that it is
\* then discovered at its url; when SIGTERM or SIGINT ends it, its record is
\* gone from the document before the process exits, so that discover then
\* fails with not found; the records of the other services stay.
C26_RegisterOnStartRemoveOnShutdown ==
    /\ event.kind = "start" =>
          /\ event.name \in DOMAIN registry
          /\ registry[event.name].url = ServiceUrl(event.name)
          /\ registry[event.name].pid = PidOf(event.name)
          /\ discover(registry, event.name)
                = [ok |-> TRUE, service |-> registry[event.name]]
          /\ \A n \in DOMAIN event.pre : n # event.name => registry[n] = event.pre[n]
    /\ event.kind = "shutdown" =>
          /\ event.name \in DOMAIN event.pre
          /\ event.name \notin DOMAIN registry
          /\ discover(registry, event.name)
                = [ok |-> FALSE, error |-> "Servico nao encontrado"]
          /\ \A n \in DOMAIN event.pre : n # event.name => registry[n] = event.pre[n]
    /\ \A n \in Registrants : procs[n] = Down <=> n \notin DOMAIN registry

\* A service that the prober had marked unhealthy was ended by SIGTERM while
\* the other service stays registered.
C26_Witness ==
    /\ event.kind = "shutdown" /\ event.signal = "SIGTERM"
    /\ ~event.pre[event.name].healthy
    /\ DOMAIN registry = Registrants \ {event.name}

\* The record of n is there and marked unhealthy.
MarkedUnhealthy(n) == n \in DOMAIN registry /\ ~registry[n].healthy

\* C27: the record of a service that died without its handlers stays in
\* the document; while the prober runs, a failed probe eventually marks it
\* unhealthy unless the service is started again first; as long as it is
\* marked unhealthy, discover fails with unavailable and the router answers
\* a request for it without calling it; the mark stays until the service
\* registers again.
C27_DeadServiceMarkedUnhealthy ==
    /\ \A n \in Registrants :
          (procs[n] = Crashed /\ n \in DOMAIN registry)
              ~> (procs[n] = Up \/ MarkedUnhealthy(n))
    /\ [][\A n \in Registrants :
            /\ (procs[n] = Crashed /\ procs'[n] = Crashed) =>
                  /\ n \in DOMAIN registry /\ n \in DOMAIN registry'
                  /\ MarkedUnhealthy(n) => MarkedUnhealthy(n)'
            /\ (procs[n] = Crashed /\ ~MarkedUnhealthy(n) /\ MarkedUnhealthy(n)') =>
                  /\ event'.kind = "probe" /\ event'.name = n
                  /\ event'.outcome # "2xx"]_<<procs, registry>>
    /\ [](\A n \in Registrants : MarkedUnhealthy(n) =>
            /\ discover(registry, n) = [ok |-> FALSE, error |-> "Servico indisponivel"]
            /\ (event.kind = "request" /\ event.service = n) =>
                  ~event.sent /\ event.res.status = 503)

\* A request for a service that crashed and was marked unhealthy by a
\* refused probe has been answered without a call.
C27_Witness ==
    /\ event.kind = "request" /\ ~event.sent
    /\ procs[event.service] = Crashed
    /\ MarkedUnhealthy(event.service)
    /\ \E i \in DOMAIN prober.cycle.results :
          prober.cycle.results[i] = [name |-> event.service, outcome |-> "refused"]

\* ------------------------------------------------------------ aggregators
\* What req.header('Authorization') gives: nothing, or a header.
AuthHeaders == {"", "Bearer t1"}

\* The user ids a token stands for.
UserIds == {"7"}

\* The url of the validation call, written out in getDashboard.
ValidateUrl == [base |-> "http://localhost:3001",
                path |-> LocalAuth \o <<"/", "v", "a", "l", "i", "d", "a", "t", "e">>]

\* How the validation call can end: a 2xx answer carrying data.data.user.id,
\* a 2xx answer without data.data.user (reading it throws), an answer
\* outside 2xx (axios rejects), no answer.
ValidateOutcomes ==
    [kind : {"valid"}, userId : UserIds]
        \cup {[kind |-> "noUser"], [kind |-> "status401"], [kind |-> "error"]}

\* A variant of the validation that lets every answered call through.
Validated_anyAnswer(outcome) == outcome.kind \in {"valid", "noUser", "status401"}

\* The inner try of getDashboard runs to its end.
Validated(outcome) == outcome.kind = "valid"

\* The branches of the dashboard, and for each the service and the path
\* callService is given.
DashboardBranches == {"user", "items", "lists"}
BranchService(b) ==
    CASE b = "user" -> "user-service"
      [] b = "items" -> "item-service"
      [] b = "lists" -> "list-service"
BranchPath(b, userId) ==
    CASE b = "user" -> LocalUsers \o <<"/", userId>>
      [] b = "items" -> LocalItems
      [] b = "lists" -> LocalLists

\* How the axios call of a branch can settle: a response (its body with or
\* without a data field), or an error without response.
BranchBodies == {[success |-> TRUE, data |-> "rows"], [success |-> TRUE]}
BranchOutcomes ==
    [kind : {"response"}, status : {200}, data : BranchBodies]
        \cup [kind : {"response"}, status : {404, 500}, data : {[success |-> FALSE]}]
        \cup [kind : {"error"}, code : {"ECONNREFUSED", "ECONNABORTED"}]
NoOutcome == [kind |-> "none"]

\* validateStatus of axios when the config names none.
validateStatus_default(status) == status >= 200 /\ status < 300

\* error.message of the rejection of a branch.
BranchMessage(o) ==
    CASE o.kind = "response" /\ o.status = 404 -> "Request failed with status code 404"
      [] o.kind = "response" /\ o.status = 500 -> "Request failed with status code 500"
      [] o.kind = "error" /\ o.code = "ECONNREFUSED" -> "connect ECONNREFUSED 127.0.0.1"
      [] o.kind = "error" /\ o.code = "ECONNABORTED" -> "timeout of 5000ms exceeded"

\* A variant of callService that asks the breaker of the destination first,
\* as proxyRequest does.
callService_behindBreaker(reg, serviceName, path) ==
    LET found == discover(reg, serviceName)
    IN  IF found.ok /\ ~BreakerOf(circuitBreakers, serviceName).isOpen
        THEN [status |-> "pending", sent |-> TRUE,
              url |-> [base |-> found.service.url, path |-> path],
              outcome |-> NoOutcome, value |-> [success |-> FALSE],
              reason |-> ""]
        ELSE [status |-> "rejected", sent |-> FALSE, url |-> NoUrl,
              outcome |-> NoOutcome, value |-> [success |-> FALSE],
              reason |-> "temporariamente indisponivel"]

\* callService up to its await: discover throws, which rejects the promise
\* of the branch at once, or the call is issued to the url discovered.
callService(reg, serviceName, path) ==
    LET found == discover(reg, serviceName)
    IN  IF found.ok
        THEN [status |-> "pending", sent |-> TRUE,
              url |-> [base |-> found.service.url, path |-> path],
              outcome |-> NoOutcome, value |-> [success |-> FALSE],
              reason |-> ""]
        ELSE [status |-> "rejected", sent |-> FALSE, url |-> NoUrl,
              outcome |-> NoOutcome, value |-> [success |-> FALSE],
              reason |-> found.error]

\* callService after its await: the promise of the branch is fulfilled with
\* response.data or rejected with the error of axios.
callSettle(branch, o) ==
    IF o.kind = "response" /\ validateStatus_default(o.status)
    THEN [branch EXCEPT !.status = "fulfilled", !.outcome = o, !.value = o.data]
    ELSE [branch EXCEPT !.status = "rejected", !.outcome = o,
                        !.reason = BranchMessage(o)]

\* The order in which the branches are declared in the array given to
\* Promise.allSettled, and the place of a branch in it.
DashboardOrder == <<"user", "items", "lists">>
SearchOrder == <<"items", "lists">>
PlaceIn(order, b) == CHOOSE i \in DOMAIN order : order[i] = b

\* A branch with the rank in which its promise settled, 0 while it is
\* pending.
Ranked(branch, k) ==
    [f \in (DOMAIN branch) \cup {"arrival"} |->
        IF f = "arrival" THEN k ELSE branch[f]]

\* The branches as callService leaves them: those discover failed for are
\* settled already, in the order of their declaration.
RankedAtStart(branches, order) ==
    [b \in DOMAIN branches |->
        Ranked(branches[b],
               IF branches[b].status = "pending" THEN 0
               ELSE Cardinality({c \in DOMAIN branches :
                                    /\ branches[c].status # "pending"
                                    /\ PlaceIn(order, c) <= PlaceIn(order, b)}))]

\* The branches after the call of b settled with o.
RankedSettle(branches, b, o) ==
    [branches EXCEPT ![b] =
        [callSettle(@, o) EXCEPT !.arrival =
            1 + Cardinality({c \in DOMAIN branches : branches[c].status # "pending"})]]

\* The results in the order the promises settled instead of the order of
\* the array: the k-th key declared gets the k-th result to arrive.
ByArrival(branches, order) ==
    [b \in DOMAIN branches |->
        LET k == Cardinality({c \in DOMAIN branches : PlaceIn(order, c) <= PlaceIn(order, b)})
        IN  branches[CHOOSE c \in DOMAIN branches : branches[c].arrival = k]]

\* .data of a body, null when the body has none.
DataOf(body) == IF "data" \in DOMAIN body THEN body.data ELSE "null"

\* A variant of the answer that gives up when a branch was rejected, as
\* Promise.all would.
dashboardAnswer_failsFast(branches) ==
    IF \E b \in DOMAIN branches : branches[b].status = "rejected"
    THEN [status |-> 500,
          body |-> [success |-> FALSE,
                    message |-> "Erro ao agregar dados do dashboard"]]
    ELSE [status |-> 200,
          body |-> [success |-> TRUE,
                    data |-> [b \in DOMAIN branches |->
                                [available |-> TRUE,
                                 data |-> DataOf(branches[b].value),
                                 error |-> "null"]]]]

\* A variant of the answer that takes the results in the order of their
\* arrival.
dashboardAnswer_arrivalOrder(branches) ==
    [status |-> 200,
     body |-> [success |-> TRUE,
               data |-> [b \in DOMAIN branches |->
                           LET r == ByArrival(branches, DashboardOrder)[b]
                           IN  [available |-> r.status = "fulfilled",
                                data |-> IF r.status = "fulfilled"
                                         THEN DataOf(r.value) ELSE "null",
                                error |-> IF r.status = "rejected"
                                          THEN r.reason ELSE "null"]]]]

\* The answer of getDashboard once Promise.allSettled has settled.
dashboardAnswer(branches) ==
    [status |-> 200,
     body |-> [success |-> TRUE,
               data |-> [b \in DOMAIN branches |->
                           [available |-> branches[b].status = "fulfilled",
                            data |-> IF branches[b].status = "fulfilled"
                                     THEN DataOf(branches[b].value) ELSE "null",
                            error |-> IF branches[b].status = "rejected"
                                      THEN branches[b].reason ELSE "null"]]]]

\* The gateway runs with the registry file as the services left it.
DashboardInit ==
    /\ now = 0
    /\ circuitBreakers = EmptyMap
    /\ registry \in RegistryDocs
    /\ pending = EmptyBag
    /\ procs = EmptyMap /\ prober = ProberOff
    /\ aggregate = NoAggregate
    /\ event = [kind |-> "init"]

\* GET /api/dashboard arrives: without header it is answered at once, with
\* one the validation call is issued.
DashboardRequest(authHeader) ==
    /\ aggregate = NoAggregate
    /\ IF authHeader = ""
       THEN /\ aggregate' = aggregate
            /\ event' = [kind |-> "answer", route |-> "dashboard", stage |-> "header",
                         authHeader |-> authHeader,
                         res |-> [status |-> 401,
                                  body |-> [success |-> FALSE,
                                            message |-> "Token de autenticacao obrigatorio"]],
                         calls |-> {}]
       ELSE /\ aggregate' = [kind |-> "dashboard", stage |-> "validating",
                             authHeader |-> authHeader, calls |-> {ValidateUrl}]
            /\ event' = [kind |-> "validate", authHeader |-> authHeader,
                         url |-> ValidateUrl]
    /\ UNCHANGED <<now, circuitBreakers, registry, pending, procs, prober>>

\* The validation call settles: on a failure 401 is answered; otherwise the
\* three branches are started in one go, and the answer follows at once
\* when discover failed for all of them.
ValidateSettles(outcome) ==
    /\ aggregate.kind = "dashboard" /\ aggregate.stage = "validating"
    /\ IF ~Validated(outcome)
       THEN /\ aggregate' = NoAggregate
            /\ event' = [kind |-> "answer", route |-> "dashboard", stage |-> "validation",
                         outcome |-> outcome,
                         res |-> [status |-> 401,
                                  body |-> [success |-> FALSE,
                                            message |-> "Token invalido"]],
                         calls |-> aggregate.calls]
       ELSE LET userId == IF outcome.kind = "valid" THEN outcome.userId ELSE "undefined"
                branches == RankedAtStart(
                               [b \in DashboardBranches |->
                                   callService(registry, BranchService(b),
                                               BranchPath(b, userId))],
                               DashboardOrder)
                calls == aggregate.calls
                           \cup {branches[b].url : b \in {c \in DashboardBranches : branches[c].sent}}
            IN  IF \A b \in DashboardBranches : branches[b].status # "pending"
                THEN /\ aggregate' = NoAggregate
                     /\ event' = [kind |-> "answer", route |-> "dashboard",
                                  stage |-> "settled", outcome |-> outcome,
                                  branches |-> branches,
                                  res |-> dashboardAnswer(branches), calls |-> calls]
                ELSE /\ aggregate' = [kind |-> "dashboard", stage |-> "branches",
                                      authHeader |-> aggregate.authHeader,
                                      calls |-> calls, branches |-> branches]
                     /\ event' = [kind |-> "issued", outcome |-> outcome,
                                  branches |-> branches]
    /\ UNCHANGED <<now, circuitBreakers, registry, pending, procs, prober>>

\* The call of branch b settles; the last one to settle lets
\* Promise.allSettled return and the answer go out.
BranchSettles(b, o) ==
    /\ aggregate.kind = "dashboard" /\ aggregate.stage = "branches"
    /\ aggregate.branches[b].status = "pending"
    /\ LET branches == RankedSettle(aggregate.branches, b, o)
       IN  IF \A c \in DashboardBranches : branches[c].status # "pending"
           THEN /\ aggregate' = NoAggregate
                /\ event' = [kind |-> "answer", route |-> "dashboard",
                             stage |-> "settled", branches |-> branches,
                             res |-> dashboardAnswer(branches),
                             calls |-> aggregate.calls]
           ELSE /\ aggregate' = [aggregate EXCEPT !.branches = branches]
                /\ event' = [kind |-> "branch", branch |-> b, branches |-> branches]
    /\ UNCHANGED <<now, circuitBreakers, registry, pending, procs, prober>>

DashboardNext ==
    \/ \E authHeader \in AuthHeaders : DashboardRequest(authHeader)
    \/ \E outcome \in ValidateOutcomes : ValidateSettles(outcome)
    \/ \E b \in DashboardBranches : \E o \in BranchOutcomes : BranchSettles(b, o)

SpecDashboard == DashboardInit /\ [][DashboardNext]_vars

\* The calls of the branches among the calls a request made.
BranchCalls(calls) == calls \ {ValidateUrl}

\* C29: getDashboard answers 401 when the request has no Authorization
\* header, and 401 when the validation call fails (no answer, an answer
\* outside 2xx, or one that does not carry the user); in both cases no call
\* of a branch is issued.
C29_DashboardUnauthorized ==
    /\ (event.kind \in {"answer", "validate"} /\ "authHeader" \in DOMAIN event
            /\ event.authHeader = "") =>
          /\ event.kind = "answer"
          /\ event.res.status = 401
          /\ event.calls = {}
          /\ aggregate = NoAggregate
    /\ (event.kind \in {"answer", "issued"} /\ "outcome" \in DOMAIN event
            /\ event.outcome.kind # "valid") =>
          /\ event.kind = "answer"
          /\ event.res.status = 401
          /\ BranchCalls(event.calls) = {}
          /\ aggregate = NoAggregate

\* With the three services registered and healthy, a validation answered
\* without the user ended in 401 with no call of a branch.
C29_Witness ==
    /\ event.kind = "answer" /\ event.stage = "validation"
    /\ event.outcome.kind = "noUser"
    /\ event.res.status = 401
    /\ \A b \in DashboardBranches : discover(registry, BranchService(b)).ok

\* The call of a branch succeeded: it was issued and answered with 2xx.
BranchSucceeded(branch) ==
    /\ branch.sent
    /\ branch.outcome.kind = "response"
    /\ branch.outcome.status >= 200 /\ branch.outcome.status < 300

\* C30: once the validation succeeded, getDashboard starts the three
\* branches in one go, each call going to the url its service is discovered
\* at; it answers only when all three have settled, always with 200, and a
\* branch is available exactly when its own call succeeded, whatever
\* happened to the other two.
C30_DashboardSettled ==
    /\ event.kind = "issued" =>
          /\ event.outcome.kind = "valid"
          /\ \A b \in DashboardBranches :
                /\ event.branches[b].sent = discover(registry, BranchService(b)).ok
                /\ event.branches[b].sent =>
                      /\ event.branches[b].status = "pending"
                      /\ event.branches[b].url
                            = [base |-> registry[BranchService(b)].url,
                               path |-> BranchPath(b, event.outcome.userId)]
    /\ (aggregate.kind = "dashboard" /\ aggregate.stage = "branches") =>
          /\ event.kind \in {"issued", "branch"}
          /\ \E b \in DashboardBranches : aggregate.branches[b].status = "pending"
    /\ (event.kind = "answer" /\ event.stage = "settled") =>
          /\ aggregate = NoAggregate
          /\ event.res.status = 200
          /\ event.res.body.success
          /\ DOMAIN event.res.body.data = DashboardBranches
          /\ \A b \in DashboardBranches :
                /\ event.branches[b].status # "pending"
                /\ event.res.body.data[b].available = BranchSucceeded(event.branches[b])

\* The dashboard was answered with the user branch answered 404, the items
\* branch answered 200 and the lists branch timed out.
C30_Witness ==
    /\ event.kind = "answer" /\ event.stage = "settled"
    /\ event.res.status = 200
    /\ event.branches["user"].sent /\ event.branches["user"].outcome.kind = "response"
    /\ ~event.res.body.data["user"].available
    /\ event.res.body.data["items"].available
    /\ event.res.body.data["items"].data = "rows"
    /\ event.branches["lists"].sent /\ event.branches["lists"].outcome.kind = "error"
    /\ ~event.res.body.data["lists"].available

\* ---------------------------------------------------------- global search
\* The q of the query string: none, a word, two words.
SearchQueries == {<<>>, <<"a", "r", "r", "o", "z">>, <<"p", " ", "o">>}

\* encodeURIComponent over the characters of the queries.
encodeURIComponent(q) ==
    LET enc[i \in 0..Len(q)] ==
            IF i = 0 THEN <<>>
            ELSE enc[i - 1] \o (IF q[i] = " " THEN <<"%", "2", "0">> ELSE <<q[i]>>)
    IN  enc[Len(q)]

\* A variant of the test of q that lets every request through.
MissingQuery_never(q) == q # q

\* !q
MissingQuery(q) == q = <<>>

\* The path of both searches.
SearchPath(q) == LocalSearch \o <<"?", "q", "=">> \o encodeURIComponent(q)

\* A variant that searches the lists with or without header.
SearchBranches_both(authHeader) == {"items", "lists"}

\* The searches started: the items always, the lists when there is a header.
SearchBranches(authHeader) ==
    IF authHeader = "" THEN {"items"} ELSE {"items", "lists"}

\* How the call of a search can settle; the services answer 2xx with
\* data.results.
SearchOutcomes ==
    [kind : {"response"}, status : {200},
     data : {[success |-> TRUE, data |-> [results |-> "hits"]]}]
        \cup [kind : {"response"}, status : {404, 500}, data : {[success |-> FALSE]}]
        \cup [kind : {"error"}, code : {"ECONNREFUSED", "ECONNABORTED"}]

\* value.data.results of a fulfilled search of the items, undefined when
\* data has none; value.data.results || value.data of one of the lists.
ResultsOf(b, body) ==
    IF "results" \in DOMAIN body.data THEN body.data.results
    ELSE IF b = "items" THEN "undefined" ELSE body.data

\* The answer of globalSearch once Promise.allSettled has settled: one key
\* per search started.
searchAnswer(q, branches) ==
    [status |-> 200,
     body |-> [success |-> TRUE,
               data |-> [k \in {"query"} \cup DOMAIN branches |->
                           IF k = "query" THEN [q |-> q]
                           ELSE [available |-> branches[k].status = "fulfilled",
                                 results |-> IF branches[k].status = "fulfilled"
                                             THEN ResultsOf(k, branches[k].value)
                                             ELSE "[]",
                                 error |-> IF branches[k].status = "rejected"
                                           THEN branches[k].reason ELSE "null"]]]]

\* GET /api/search arrives: without q it is answered 400 at once; otherwise
\* the searches are started in one go, and the answer follows at once when
\* discover failed for all of them.
SearchRequest(q, authHeader) ==
    /\ aggregate = NoAggregate
    /\ IF MissingQuery(q)
       THEN /\ aggregate' = aggregate
            /\ event' = [kind |-> "answer", route |-> "search", stage |-> "query",
                         q |-> q, authHeader |-> authHeader,
                         res |-> [status |-> 400,
                                  body |-> [success |-> FALSE,
                                            message |-> "Parametro de busca q e obrigatorio"]],
                         lookups |-> {}, calls |-> {}]
       ELSE LET started == SearchBranches(authHeader)
                branches == RankedAtStart(
                               [b \in started |->
                                   callService(registry, BranchService(b), SearchPath(q))],
                               SearchOrder)
                lookups == {BranchService(b) : b \in started}
                calls == {branches[b].url : b \in {c \in started : branches[c].sent}}
            IN  IF \A b \in started : branches[b].status # "pending"
                THEN /\ aggregate' = NoAggregate
                     /\ event' = [kind |-> "answer", route |-> "search",
                                  stage |-> "searched", q |-> q,
                                  authHeader |-> authHeader, branches |-> branches,
                                  res |-> searchAnswer(q, branches),
                                  lookups |-> lookups, calls |-> calls]
                ELSE /\ aggregate' = [kind |-> "search", stage |-> "branches",
                                      q |-> q, authHeader |-> authHeader,
                                      lookups |-> lookups, calls |-> calls,
                                      branches |-> branches]
                     /\ event' = [kind |-> "searchIssued", q |-> q,
                                  authHeader |-> authHeader, branches |-> branches]
    /\ UNCHANGED <<now, circuitBreakers, registry, pending, procs, prober>>

\* The call of search b settles; the last one to settle lets
\* Promise.allSettled return and the answer go out.
SearchSettles(b, o) ==
    /\ aggregate.kind = "search" /\ aggregate.stage = "branches"
    /\ b \in DOMAIN aggregate.branches
    /\ aggregate.branches[b].status = "pending"
    /\ LET branches == RankedSettle(aggregate.branches, b, o)
       IN  IF \A c \in DOMAIN branches : branches[c].status # "pending"
           THEN /\ aggregate' = NoAggregate
                /\ event' = [kind |-> "answer", route |-> "search",
                             stage |-> "searched", q |-> aggregate.q,
                             authHeader |-> aggregate.authHeader,
                             branches |-> branches,
                             res |-> searchAnswer(aggregate.q, branches),
                             lookups |-> aggregate.lookups,
                             calls |-> aggregate.calls]
           ELSE /\ aggregate' = [aggregate EXCEPT !.branches = branches]
                /\ event' = [kind |-> "searchBranch", branch |-> b,
                             branches |-> branches]
    /\ UNCHANGED <<now, circuitBreakers, registry, pending, procs, prober>>

\* The breakers the proxied requests can have left when an aggregator
\* request arrives: none, one that counted a failure, one that is open.
BreakerMaps ==
    {EmptyMap,
     [d \in {"user-service"} |-> [NewBreaker EXCEPT !.failures = 1]],
     [d \in {"item-service"} |->
         [NewBreaker EXCEPT !.failures = FailureThreshold, !.isOpen = TRUE]]}

AggregatorsInit ==
    /\ now = 0
    /\ circuitBreakers \in BreakerMaps
    /\ registry \in RegistryDocs
    /\ pending = EmptyBag
    /\ procs = EmptyMap /\ prober = ProberOff
    /\ aggregate = NoAggregate
    /\ event = [kind |-> "init"]

AggregatorsNext ==
    \/ \E authHeader \in AuthHeaders : DashboardRequest(authHeader)
    \/ \E outcome \in ValidateOutcomes : ValidateSettles(outcome)
    \/ \E b \in DashboardBranches : \E o \in BranchOutcomes : BranchSettles(b, o)
    \/ \E q \in SearchQueries : \E authHeader \in AuthHeaders :
          SearchRequest(q, authHeader)
    \/ \E b \in {"items", "lists"} : \E o \in SearchOutcomes : SearchSettles(b, o)

SpecAggregators == AggregatorsInit /\ [][AggregatorsNext]_vars

\* C35: a proxied request that ends before the network call, because the
\* breaker is open or because discover failed, counts neither as a failure
\* nor as a success: the failures and the lastFailure of the destination
\* are as before, a breaker that was closed stays closed, and the request
\* turned away by the open breaker leaves the breaker untouched.
C35_RejectedLeavesBreaker ==
    (event.kind = "request" /\ ~event.sent) =>
        /\ Cur(event.service).failures = event.pre.failures
        /\ Cur(event.service).lastFailure = event.pre.lastFailure
        /\ ~event.pre.isOpen => Cur(event.service) = event.pre
        /\ event.open => Cur(event.service) = event.pre
        /\ Cur(event.service).isOpen => event.pre.isOpen

\* A request for a destination that discover does not give was answered 503
\* after two failures had been counted, and the count is still two.
C35_Witness ==
    /\ event.kind = "request" /\ ~event.sent /\ event.looked
    /\ event.pre.failures = 2
    /\ Cur(event.service).failures = 2
    /\ ~Cur(event.service).isOpen

\* C37: the breakers are independent: a step of the gateway changes the
\* breaker of the destination of the request it belongs to and of no other
\* destination, and a request is turned away by an open breaker only when
\* the breaker of its own destination was open.
C37_BreakersIndependent ==
    [][/\ \A d \in Services :
             Cur(d)' # Cur(d) =>
                 event'.kind \in {"request", "settle"} /\ event'.service = d
       /\ (event'.kind = "request" /\ event'.open) =>
             BreakerOf(circuitBreakers, event'.service).isOpen]_<<circuitBreakers, event>>

\* The breaker of one destination is open while a request for another
\* destination, whose breaker counted nothing, has been sent on.
C37_Witness ==
    /\ event.kind = "request" /\ event.sent
    /\ Cur(event.service) = NewBreaker
    /\ \E d \in Services \ {event.service} : Cur(d).isOpen

\* C38: called one after the other from one process, register, unregister
\* and updateHealth of a name leave every record of another name as it was,
\* and discover, listServices and getStats leave the whole document as it
\* was.
C38_RegistryFrame ==
    /\ event.kind \in {"register", "unregister", "updateHealth"} =>
          OthersKept(event.name)
    /\ event.kind \in {"discover", "listServices", "getStats"} =>
          registry = event.pre
    /\ event.kind = "getStats" =>
          /\ event.result.total = Cardinality(DOMAIN registry)
          /\ event.result.total = event.result.healthy + event.result.unhealthy

\* A service registered again while the record of the other one, marked
\* unhealthy, stayed as it was.
C38_Witness ==
    /\ event.kind = "register"
    /\ event.name \in DOMAIN event.pre
    /\ \E m \in (DOMAIN registry) \ {event.name} :
          ~registry[m].healthy /\ registry[m] = event.pre[m]

\* C39 as stated: the prober applying a result never adds a record to the
\* document nor removes one from it.
C39_ProbeKeepsRecords ==
    (event.kind = "write" /\ event.proc = Gateway) =>
        DOMAIN registry = DOMAIN event.pre

\* C39: the prober applies a result by name to the document updateHealth
\* reads at that moment: for a name that document does not have, nothing is
\* written, so a record unregistered while its probe was in flight is not
\* created again by the result; otherwise the document read is written back
\* whole with the one record marked, which adds and removes nothing when
\* no other process wrote between that read and that write, and otherwise
\* puts the file back to the records that were read.
C39_ProbeWritesWhatItRead ==
    (event.kind = "write" /\ event.proc = Gateway) =>
        /\ event.call.name \notin DOMAIN event.read =>
              ~event.wrote /\ registry = event.pre
        /\ event.wrote =>
              /\ DOMAIN registry = DOMAIN event.read
              /\ \A m \in (DOMAIN registry) \ {event.call.name} :
                    registry[m] = event.read[m]
        /\ event.read = event.pre => DOMAIN registry = DOMAIN event.pre

\* The result of a probe arrives for a service that is no longer in the
\* document, next to the record of the other service: nothing is written.
C39_Witness ==
    /\ event.kind = "write" /\ event.proc = Gateway
    /\ event.call.name \notin DOMAIN event.read
    /\ ~event.wrote
    /\ DOMAIN registry = Registrants \ {event.call.name}

\* The searches a search answer has a key for.
AnswerBranches == (DOMAIN event.res.body.data) \ {"query"}

\* C31: globalSearch always starts the search of the items and starts the
\* search of the lists only when the request has an Authorization header:
\* without it the answer has an items key and no lists key and list-service
\* is neither looked up nor called; with it the answer has both keys, and
\* each is available exactly when its own call succeeded.
C31_SearchBranches ==
    /\ event.kind = "searchIssued" =>
          DOMAIN event.branches = (IF event.authHeader = "" THEN {"items"}
                                   ELSE {"items", "lists"})
    /\ (event.kind = "answer" /\ event.stage = "searched") =>
          /\ event.res.status = 200
          /\ "item-service" \in event.lookups
          /\ event.authHeader = "" =>
                /\ AnswerBranches = {"items"}
                /\ "list-service" \notin event.lookups
                /\ \A u \in event.calls : u.base # ServiceUrl("list-service")
          /\ event.authHeader # "" =>
                /\ AnswerBranches = {"items", "lists"}
                /\ "list-service" \in event.lookups
          /\ \A b \in AnswerBranches :
                event.res.body.data[b].available = BranchSucceeded(event.branches[b])

\* A search with header was answered with the items found and the lists
\* unavailable, the call to list-service having been answered 500.
C31_Witness ==
    /\ event.kind = "answer" /\ event.stage = "searched"
    /\ event.authHeader # ""
    /\ event.res.body.data["items"].available
    /\ event.res.body.data["items"].results = "hits"
    /\ event.branches["lists"].sent
    /\ event.branches["lists"].outcome.kind = "response"
    /\ ~event.res.body.data["lists"].available

\* C32: globalSearch without q answers 400 without a lookup in the
\* registry and without a downstream call, and 400 is answered in no other
\* case.
C32_SearchNeedsQuery ==
    /\ (event.kind \in {"answer", "searchIssued"} /\ "q" \in DOMAIN event
            /\ event.q = <<>>) =>
          /\ event.kind = "answer"
          /\ event.res.status = 400
          /\ event.lookups = {}
          /\ event.calls = {}
          /\ aggregate = NoAggregate
    /\ (event.kind = "answer" /\ event.res.status = 400) => event.q = <<>>

\* With item-service and list-service registered and healthy, a search
\* with header and without q was answered 400.
C32_Witness ==
    /\ event.kind = "answer" /\ event.stage = "query"
    /\ event.authHeader # ""
    /\ event.res.status = 400
    /\ discover(registry, "item-service").ok
    /\ discover(registry, "list-service").ok

\* What the answer shows of a settled branch of the dashboard.
DashboardView(branch) ==
    [available |-> BranchSucceeded(branch),
     data |-> IF BranchSucceeded(branch) THEN DataOf(branch.outcome.data) ELSE "null",
     error |-> IF BranchSucceeded(branch) THEN "null" ELSE branch.reason]

\* The call of branch b went to the service and the path declared for b.
DeclaredCall(b, branch, paths) ==
    branch.sent =>
        /\ branch.url.base = registry[BranchService(b)].url
        /\ branch.url.path \in paths

\* C33: in the answer of the dashboard and of the search, the key of a
\* branch holds the result of the call declared for that branch, to the
\* service and path of that branch, in whatever order the calls settled;
\* the answer goes out when every branch has settled and not before.
C33_DeclarationOrder ==
    /\ (event.kind = "answer" /\ event.stage = "settled") =>
          \A b \in DashboardBranches :
              /\ event.branches[b].status # "pending"
              /\ event.branches[b].arrival \in 1..3
              /\ DeclaredCall(b, event.branches[b],
                              {BranchPath(b, u) : u \in UserIds})
              /\ event.res.body.data[b] = DashboardView(event.branches[b])
    /\ (event.kind = "answer" /\ event.stage = "searched") =>
          \A b \in DOMAIN event.branches :
              /\ event.branches[b].status # "pending"
              /\ DeclaredCall(b, event.branches[b], {SearchPath(event.q)})
              /\ event.res.body.data[b].available = BranchSucceeded(event.branches[b])
              /\ event.res.body.data[b].error
                    = (IF BranchSucceeded(event.branches[b]) THEN "null"
                       ELSE event.branches[b].reason)
    /\ aggregate.kind \in {"dashboard", "search"} =>
          /\ event.kind # "answer"
          /\ aggregate.stage = "branches" =>
                \E b \in DOMAIN aggregate.branches :
                    aggregate.branches[b].status = "pending"

\* The calls of the dashboard settled in the reverse of the order they are
\* declared in, the lists one failing and the user one succeeding, and the
\* answer has each result under its own key.
C33_Witness ==
    /\ event.kind = "answer" /\ event.stage = "settled"
    /\ event.branches["lists"].arrival = 1
    /\ event.branches["items"].arrival = 2
    /\ event.branches["user"].arrival = 3
    /\ ~event.res.body.data["lists"].available
    /\ event.res.body.data["user"].available
    /\ event.res.body.data["user"].data = "rows"
    /\ event.res.body.data["items"].data = "null"

\* C34: every call the gateway makes for an aggregator request, the
\* validation of the token of the dashboard included, goes to the url
\* discover gives for its service, and none goes to a service that is not
\* in the registry or is marked unhealthy.
C34_CallsOnlyDiscovered ==
    /\ event.kind = "validate" =>
          /\ discover(registry, "user-service").ok
          /\ event.url.base = discover(registry, "user-service").service.url
    /\ event.kind \in {"issued", "searchIssued"} =>
          \A b \in DOMAIN event.branches :
              event.branches[b].sent =>
                  /\ discover(registry, BranchService(b)).ok
                  /\ event.branches[b].url.base
                        = discover(registry, BranchService(b)).service.url

\* C36: the calls of the aggregators go by the registry alone: a branch is
\* called exactly when discover gives its service, the breaker of the
\* service being open or not, the validation call of the dashboard is made
\* whatever the breakers hold, and no step of an aggregator request changes
\* a breaker.
C36_AggregatorsIgnoreBreakers ==
    [][/\ circuitBreakers' = circuitBreakers
       /\ event'.kind \in {"issued", "searchIssued"} =>
             \A b \in DOMAIN event'.branches :
                 event'.branches[b].sent = discover(registry, BranchService(b)).ok
       /\ (event'.kind = "answer" /\ event'.stage \in {"settled", "searched"}) =>
             \A b \in DOMAIN event'.branches :
                 event'.branches[b].sent = discover(registry, BranchService(b)).ok
       /\ (aggregate = NoAggregate /\ aggregate'.kind = "dashboard") =>
             event'.kind = "validate"]_<<circuitBreakers, aggregate, event>>

\* The search of the items was sent to item-service while the breaker of
\* item-service is open, failed, and the breaker is as it was.
C36_Witness ==
    /\ event.kind = "answer" /\ event.stage = "searched"
    /\ Cur("item-service").isOpen
    /\ Cur("item-service").failures = FailureThreshold
    /\ event.branches["items"].sent
    /\ event.branches["items"].outcome.kind = "error"

\* ----------------------- a service started again while it is being probed
\* The url a service registers when it is started with another PORT in its
\* environment: serviceUrl is built from process.env.PORT.
MovedUrl(name) ==
    CASE name = "user-service" -> "http://localhost:4001"
      [] name = "item-service" -> "http://localhost:4002"
      [] name = "list-service" -> "http://localhost:4003"

\* start() of a service told to listen at url: the callback of app.listen
\* registers the service under that url.
StaleStart(name, url) ==
    /\ procs[name] \in {Down, Crashed}
    /\ procs' = [procs EXCEPT ![name] = [state |-> "up", url |-> url]]
    /\ registry' = register(registry, name, [url |-> url, version |-> "1.0.0"],
                            PidOf(name), now)
    /\ event' = [kind |-> "start", name |-> name, url |-> url, pre |-> registry]
    /\ UNCHANGED <<now, circuitBreakers, pending, prober, aggregate>>

\* A signal ends a running service: cleanup runs from the signal listener
\* and again from the 'exit' listener.
StaleShutdown(name) ==
    /\ procs[name] \notin {Down, Crashed}
    /\ procs' = [procs EXCEPT ![name] = Down]
    /\ registry' = cleanup(cleanup(registry, PidOf(name)).reg, PidOf(name)).reg
    /\ event' = [kind |-> "shutdown", name |-> name, pre |-> registry]
    /\ UNCHANGED <<now, circuitBreakers, pending, prober, aggregate>>

\* A running service is killed: no listener runs.
StaleCrash(name) ==
    /\ procs[name] \notin {Down, Crashed}
    /\ procs' = [procs EXCEPT ![name] = Crashed]
    /\ event' = [kind |-> "crash", name |-> name]
    /\ UNCHANGED <<now, circuitBreakers, registry, pending, prober, aggregate>>

\* How a probe of url can settle: a service listening there answers its
\* /health with 200 unless the probe times out; a connection to a port
\* nobody listens on is refused.
StaleOutcomes(url) ==
    IF \E name \in DOMAIN procs : procs[name] = [state |-> "up", url |-> url]
    THEN {"2xx", "timeout"}
    ELSE {"refused", "timeout"}

\* The probe in flight settles: it was sent to the url of the snapshot.
StaleProbe ==
    /\ prober.cycle.running
    /\ \E outcome \in StaleOutcomes(prober.cycle.snapshot[prober.cycle.current].url) :
          ProbeSettles(outcome)

StaleNext ==
    \/ \E name \in Registrants : \E url \in {ServiceUrl(name), MovedUrl(name)} :
          StaleStart(name, url)
    \/ \E name \in Registrants : StaleShutdown(name)
    \/ \E name \in Registrants : StaleCrash(name)
    \/ LifeCycleStart
    \/ StaleProbe

\* The services are down and the document is empty, as in LifeInit.
SpecStale == LifeInit /\ [][StaleNext]_vars

====
